---- MODULE Spec2Model ----
(***************************************************************************)
(* Model of the vibration-sensor collector of this repository:             *)
(*   - DataBuffer (data_collector.py): the bounded deque behind one lock;  *)
(*   - DataCollector (data_collector.py): start/stop and the polling loop; *)
(*   - AnomalyDetector.detect_anomaly (anomaly_detection.py): the per-axis *)
(*     severity, hysteresis and consecutive-count debounce.                *)
(* Each part has its own specification over the same variables:            *)
(*   SpecBuf  - DataBuffer used by one caller (operations are atomic);     *)
(*   SpecConc - DataBuffer used by the polling thread and reader threads,  *)
(*              every method split at its lock and at its loop;            *)
(*   SpecDet  - AnomalyDetector ticks;                                     *)
(*   SpecCol  - DataCollector with its polling thread.                     *)
(* A part's Init puts the other parts' variables at fixed idle values and  *)
(* its actions leave them unchanged.                                       *)
(***************************************************************************)
EXTENDS Integers, Sequences, FiniteSets, TLC

VARIABLES
    \* ---- DataBuffer
    max_size,       \* DataBuffer.max_size (deque maxlen)
    buffer,         \* DataBuffer.buffer, oldest first
    added,          \* ghost: the samples added since the last clear(), in order
    nextId,         \* ghost: identity of the next SensorData object
    ret,            \* SpecBuf: the last read call, its arguments and what it returned
    \* ---- DataBuffer under threads
    lock,           \* DataBuffer.lock: the thread holding it, or NoThread
    pc,             \* per thread: position inside the method it is executing
    call,           \* per thread: the method and arguments of the call in progress
    iter,           \* per thread: get_by_time_range's loop index and result list
    result,         \* per thread: the value the call returns
    seen,           \* ghost, per thread: buffer contents that existed since the call
    \* ---- AnomalyDetector
    baseline,       \* BaselineCalculator.baseline (the profile in use)
    thresholds,     \* AnomalyDetector.thresholds
    min_consecutive,\* AnomalyDetector.min_consecutive
    hysteresis_ratio,\* AnomalyDetector.hysteresis_ratio, in percent
    state_tracker,  \* AnomalyDetector.state_tracker
    anomaly_results,\* what the last detect_anomaly returned
    tick,           \* ghost: number of detect_anomaly calls that evaluated the axes
    trace,          \* ghost, per axis: what each tick saw and decided
    \* ---- DataCollector
    is_running,     \* DataCollector.is_running
    stop_event,     \* DataCollector.stop_event
    thread,         \* state of each polling thread ever spawned
    stats,          \* total_readings, failed_readings, start_time
    sensor_connected,\* WTVBSensor.is_connected
    ctl,            \* the controlling (GUI) thread: "idle", or "joining" inside stop()
    clock,          \* time.time(), advanced by every start() that goes through
    colGhost,       \* ghost: what the last step did, whether stop() has returned,
                    \* and the number of reads issued
    on_connection_lost, \* DataCollector.on_connection_lost: what the callback does
    on_error,       \* DataCollector.on_error: what the callback does
    \* ---- ModbusRTU
    serial_in,      \* bytes received on ModbusRTU.serial and not read yet
    last_error,     \* ModbusRTU.last_error
    rr,             \* the read_registers call in progress, or the last one
    \* ---- CRCCalculator
    crc_data,       \* the bytes handed to verify_crc
    crc_ok,         \* verify_crc(crc_data): "pass", "fail", "none" before the call
    crc_flip,       \* ghost: the bit flipped in a frame that had passed
    \* ---- WTVBSensor register decoding
    codec,          \* a _parse_int16 call: its arguments and what it returned
    \* ---- ModbusRTU.write_register
    wr,             \* the write_register call in progress, or the last one
    \* ---- BaselineCalculator
    base,           \* the last calculate_baseline call: its arguments, what it
                    \* returned, last_error, and whether it kept the baseline
    \* ---- AnomalyDetector beside its BaselineCalculator
    obs,            \* the last call on the pair: what it found and returned
    \* ---- SensorData objects
    sam,            \* the SensorData objects by identity, with their fields
    \* ---- WTVBSensor.read_all_data, step by step
    cyc             \* the polling loops' positions in read_all_data, and where
                    \* each field of self.current_data came from

bufVars  == <<max_size, buffer, added, nextId, ret>>
concVars == <<lock, pc, call, iter, result, seen>>
detVars  == <<baseline, thresholds, min_consecutive, hysteresis_ratio,
              state_tracker, anomaly_results, tick, trace>>
colVars  == <<is_running, stop_event, thread, stats, sensor_connected, ctl,
              clock, colGhost, on_connection_lost, on_error>>
busVars  == <<serial_in, last_error, rr>>
crcVars  == <<crc_data, crc_ok, crc_flip>>
auxVars  == <<crcVars, codec, wr, base, obs, sam, cyc>>
vars     == <<bufVars, concVars, detVars, colVars, busVars, auxVars>>

----------------------------------------------------------------------------
(* Bounds of the model.                                                    *)

\* largest DataBuffer capacity tried
BufCap == 2
\* number of add() calls in a run
MaxAdds == 4
\* timestamps are 1..MaxTs
MaxTs == 2
\* number of add() calls of the polling thread in a run of SpecConc
ConcAdds == 3

Min(a, b) == IF a < b THEN a ELSE b
Max(a, b) == IF a > b THEN a ELSE b

Timestamps == 1..MaxTs
\* query bounds reach below and above every timestamp
TimeArgs == 0..(MaxTs + 1)

\* A SensorData object as far as the buffer is concerned: its identity and
\* its timestamp field.
Sample(i, ts) == [id |-> i, timestamp |-> ts]

----------------------------------------------------------------------------
(* DataBuffer: the methods as functions of the deque.                      *)

\* deque(maxlen=k).append(x), as the mutant that evicts nothing
DequeAppendNoEvict(buf, x, k) == Append(buf, x)

\* deque(maxlen=k).append(x): appends on the right; a full deque first
\* discards its leftmost item; a deque of maxlen 0 stays empty.
DequeAppend(buf, x, k) ==
    IF k = 0 THEN << >>
    ELSE IF Len(buf) >= k THEN Append(Tail(buf), x)
    ELSE Append(buf, x)

\* list(self.buffer)
GetAll(buf) == buf

\* len(self.buffer)
Size(buf) == Len(buf)

\* self.buffer[-1] if len(self.buffer) > 0 else None
None == [id |-> 0, timestamp |-> 0]
GetLatest(buf) == IF Len(buf) > 0 THEN buf[Len(buf)] ELSE None

\* Python's lst[-n:] : for n > 0 the last n items (all of them when n exceeds
\* the length); -0 is 0, so lst[-0:] is lst[0:], the whole list.
SliceLast(lst, n) ==
    IF n = 0 THEN lst
    ELSE SubSeq(lst, Max(1, Len(lst) - n + 1), Len(lst))

\* list(self.buffer)[-n:]
GetLastN(buf, n) == SliceLast(buf, n)

\* start_time <= data.timestamp <= end_time, as the mutant that excludes the
\* upper bound
InRangeExclusive(d, start_time, end_time) ==
    start_time <= d.timestamp /\ d.timestamp < end_time

\* start_time <= data.timestamp <= end_time
InRange(d, start_time, end_time) ==
    start_time <= d.timestamp /\ d.timestamp <= end_time

\* one iteration of get_by_time_range's for loop: result.append(data) when
\* data is in range
RangeStep(acc, d, start_time, end_time) ==
    IF InRange(d, start_time, end_time) THEN Append(acc, d) ELSE acc

\* get_by_time_range: the for loop over the deque from index i on
RECURSIVE RangeLoop(_, _, _, _, _)
RangeLoop(buf, i, acc, start_time, end_time) ==
    IF i > Len(buf) THEN acc
    ELSE RangeLoop(buf, i + 1, RangeStep(acc, buf[i], start_time, end_time),
                   start_time, end_time)

GetByTimeRange(buf, start_time, end_time) ==
    RangeLoop(buf, 1, << >>, start_time, end_time)

----------------------------------------------------------------------------
(* Idle values of each part's variables.                                   *)

NoThread == "none"
Poller   == "poller"
Readers  == {"r1", "r2"}
Threads  == {Poller} \cup Readers

NoCall == [op |-> "none", a |-> 0, b |-> 0]
NoRet  == [op |-> "none", a |-> 0, b |-> 0, val |-> << >>, buf |-> << >>]

BufIdle ==
    /\ max_size = 0
    /\ buffer = << >>
    /\ added = << >>
    /\ nextId = 1
    /\ ret = NoRet

ConcIdle ==
    /\ lock = NoThread
    /\ pc = [t \in Threads |-> "idle"]
    /\ call = [t \in Threads |-> NoCall]
    /\ iter = [t \in Threads |-> [i |-> 0, acc |-> << >>]]
    /\ result = [t \in Threads |-> << >>]
    /\ seen = [t \in Threads |-> {}]

DetIdle ==
    /\ baseline = << >>
    /\ thresholds = << >>
    /\ min_consecutive = 1
    /\ hysteresis_ratio = 0
    /\ state_tracker = << >>
    /\ anomaly_results = << >>
    /\ tick = 0
    /\ trace = << >>

\* no start() call recorded
NoStart ==
    [called |-> FALSE, was_running |-> FALSE, was_connected |-> FALSE,
     returned |-> FALSE, kept |-> TRUE]

\* no call of the connection-lost callback recorded
NoLost == [invoked |-> FALSE, disc |-> 0, errors |-> 0]

\* nothing has happened to the collector yet. lastStart, events and lost
\* describe the step just taken; stopped, reads, budget (the reads a run may
\* issue), completed (the reads of this session that have returned) and
\* lost_n (the calls of the connection-lost callback) last. session says
\* that the run follows one session: lost, completed, lost_n and the
\* threads' disc are kept only then.
NoEvents ==
    [lastStart |-> NoStart, events |-> {}, lost |-> NoLost,
     stopped |-> FALSE, reads |-> 0, budget |-> 0, completed |-> 0,
     lost_n |-> 0, session |-> FALSE]

\* total_readings, failed_readings and start_time (0 for None)
NoStats == [total_readings |-> 0, failed_readings |-> 0, start_time |-> 0]

ColIdle ==
    /\ is_running = FALSE
    /\ stop_event = FALSE
    /\ thread = << >>
    /\ stats = NoStats
    /\ sensor_connected = FALSE
    /\ ctl = "idle"
    /\ clock = 0
    /\ colGhost = NoEvents
    /\ on_connection_lost = "returns"
    /\ on_error = "returns"

\* no read_registers call yet. written is the frame the call wrote, response
\* the bytes it read, returned "data" with data, or "none" for None; stale
\* counts the bytes of the response that were pending when the frame was
\* written.
NoRead ==
    [pc |-> "idle", address |-> 0, count |-> 0, written |-> << >>,
     response |-> << >>, returned |-> "none", data |-> << >>, stale |-> 0]

BusIdle ==
    /\ serial_in = << >>
    /\ last_error = "none"
    /\ rr = NoRead

\* no bit flipped
NoFlip == [byte |-> 0, bit |-> 0]

CrcIdle ==
    /\ crc_data = << >>
    /\ crc_ok = "none"
    /\ crc_flip = NoFlip

\* no _parse_int16 call: v is the register value the device encoded (ghost)
NoParse == [pc |-> "idle", v |-> 0, data |-> << >>, offset |-> 0, value |-> 0]

CodecIdle == codec = NoParse

\* no write_register call yet. written is the frame the call wrote, response
\* the bytes it read, returned "true" or "false" ("none" before it returns).
NoWrite ==
    [pc |-> "idle", address |-> 0, value |-> 0, written |-> << >>,
     response |-> << >>, returned |-> "none"]

WrIdle == wr = NoWrite

\* no calculate_baseline call yet
NoCalc ==
    [op |-> "none", window |-> << >>, min_samples |-> 0,
     max_zero_std_axes |-> 0, returned |-> "none", last_error |-> "none",
     kept |-> TRUE]

BaseIdle == base = NoCalc

NoObs ==
    [op |-> "none", stale |-> FALSE, tracker_before |-> << >>,
     results |-> << >>, score |-> <<0, 1>>, unchanged |-> TRUE]

ObsIdle == obs = NoObs

\* SensorData(): every measurement 0.0
NewSensorData(now) ==
    [velocity |-> 0, displacement |-> 0, frequency |-> 0, acceleration |-> 0,
     temperature |-> 0, timestamp |-> now]

\* identity of WTVBSensor.current_data
Working == 0

\* heap: the fields of every SensorData object; inserted: the fields each
\* object had when the polling loop added it to the buffer; polls: the
\* cycles of the polling loop so far
NoSamples ==
    [heap |-> [i \in {Working} |-> NewSensorData(0)], inserted |-> << >>,
     polls |-> 0]

SamIdle == sam = NoSamples

\* no read_all_data has been called
NoCycles == [idle |-> TRUE]

CycIdle == cyc = NoCycles

AuxIdle == CrcIdle /\ CodecIdle /\ WrIdle /\ BaseIdle /\ ObsIdle /\ SamIdle /\ CycIdle

----------------------------------------------------------------------------
(* SpecBuf: DataBuffer called from one thread. Every method runs under     *)
(* self.lock from start to end, so with one caller a call is one step.     *)

\* DataBuffer.__init__(max_size)
BufInit ==
    /\ max_size \in 0..BufCap
    /\ buffer = << >>
    /\ added = << >>
    /\ nextId = 1
    /\ ret = NoRet

\* DataBuffer.add(data)
Add(ts) ==
    /\ nextId <= MaxAdds
    /\ buffer' = DequeAppend(buffer, Sample(nextId, ts), max_size)
    /\ added' = Append(added, Sample(nextId, ts))
    /\ nextId' = nextId + 1
    /\ UNCHANGED <<max_size, ret>>

\* DataBuffer.clear()
Clear ==
    /\ buffer' = << >>
    /\ added' = << >>
    /\ UNCHANGED <<max_size, nextId, ret>>

\* DataBuffer.get_all()
CallGetAll ==
    /\ ret' = [op |-> "get_all", a |-> 0, b |-> 0,
               val |-> GetAll(buffer), buf |-> buffer]
    /\ UNCHANGED <<max_size, buffer, added, nextId>>

\* DataBuffer.size()
CallSize ==
    /\ ret' = [op |-> "size", a |-> 0, b |-> 0,
               val |-> Size(buffer), buf |-> buffer]
    /\ UNCHANGED <<max_size, buffer, added, nextId>>

\* DataBuffer.get_latest()
CallGetLatest ==
    /\ ret' = [op |-> "get_latest", a |-> 0, b |-> 0,
               val |-> GetLatest(buffer), buf |-> buffer]
    /\ UNCHANGED <<max_size, buffer, added, nextId>>

\* DataBuffer.get_last_n(n)
CallGetLastN(n) ==
    /\ ret' = [op |-> "get_last_n", a |-> n, b |-> 0,
               val |-> GetLastN(buffer, n), buf |-> buffer]
    /\ UNCHANGED <<max_size, buffer, added, nextId>>

\* DataBuffer.get_by_time_range(start_time, end_time)
CallGetByTimeRange(start_time, end_time) ==
    /\ ret' = [op |-> "get_by_time_range", a |-> start_time, b |-> end_time,
               val |-> GetByTimeRange(buffer, start_time, end_time),
               buf |-> buffer]
    /\ UNCHANGED <<max_size, buffer, added, nextId>>

InitBuf == BufInit /\ ConcIdle /\ DetIdle /\ ColIdle /\ BusIdle /\ AuxIdle

NextBuf ==
    \/ \E ts \in Timestamps : Add(ts) /\ UNCHANGED <<concVars, detVars, colVars, busVars, auxVars>>
    \/ Clear /\ UNCHANGED <<concVars, detVars, colVars, busVars, auxVars>>
    \/ CallGetAll /\ UNCHANGED <<concVars, detVars, colVars, busVars, auxVars>>
    \/ CallSize /\ UNCHANGED <<concVars, detVars, colVars, busVars, auxVars>>
    \/ CallGetLatest /\ UNCHANGED <<concVars, detVars, colVars, busVars, auxVars>>
    \/ \E n \in 0..(BufCap + 1) :
          CallGetLastN(n) /\ UNCHANGED <<concVars, detVars, colVars, busVars, auxVars>>
    \/ \E t0 \in TimeArgs, t1 \in TimeArgs :
          CallGetByTimeRange(t0, t1) /\ UNCHANGED <<concVars, detVars, colVars, busVars, auxVars>>

SpecBuf == InitBuf /\ [][NextBuf]_vars

----------------------------------------------------------------------------
(* Claims about DataBuffer with one caller.                                *)

\* the last m items of s, written without reference to the deque
LastOf(s, m) == [i \in 1..m |-> s[Len(s) - m + i]]

\* C1: for a DataBuffer of capacity k, after any sequence of add() and
\* clear() calls size() <= k and get_all() is, in insertion order, the last
\* min(k, n) samples added since the most recent clear(), n being the number
\* of adds since that clear; so after k+m adds the oldest m are the evicted.
C1_EvictionOrder ==
    /\ Size(buffer) <= max_size
    /\ GetAll(buffer) = LastOf(added, Min(max_size, Len(added)))

\* C1 witness: more samples were added than the capacity holds, the buffer is
\* full and its oldest item is not the first one added.
C1_Witness ==
    /\ max_size >= 2
    /\ Len(added) >= max_size + 2
    /\ Size(buffer) = max_size
    /\ buffer[1].id = added[Len(added) - max_size + 1].id

\* position of the sample with identity i in buf (0 when absent)
PosOf(buf, i) ==
    IF \E k \in 1..Len(buf) : buf[k].id = i
    THEN CHOOSE k \in 1..Len(buf) : buf[k].id = i
    ELSE 0

\* C3: for every buffer content, timestamps in any order, and every t0, t1,
\* get_by_time_range(t0, t1) returns exactly the samples with
\* t0 <= timestamp <= t1, each once, in insertion order; it is empty when
\* t0 > t1.
C3_TimeRangeExact ==
    ret.op = "get_by_time_range" =>
        /\ \A k \in 1..Len(ret.val) :
              /\ PosOf(ret.buf, ret.val[k].id) > 0
              /\ ret.val[k] = ret.buf[PosOf(ret.buf, ret.val[k].id)]
              /\ ret.a <= ret.val[k].timestamp
              /\ ret.val[k].timestamp <= ret.b
        /\ \A k \in 1..Len(ret.buf) :
              (ret.a <= ret.buf[k].timestamp /\ ret.buf[k].timestamp <= ret.b)
                  => \E j \in 1..Len(ret.val) : ret.val[j] = ret.buf[k]
        /\ \A j, k \in 1..Len(ret.val) :
              j < k => PosOf(ret.buf, ret.val[j].id) < PosOf(ret.buf, ret.val[k].id)
        /\ (ret.a > ret.b => ret.val = << >>)

\* C3 witness: a query over unsorted timestamps whose upper bound equals the
\* timestamp of a returned sample, that keeps some samples and drops others.
C3_Witness ==
    /\ ret.op = "get_by_time_range"
    /\ Len(ret.buf) >= 2
    /\ ret.buf[1].timestamp > ret.buf[2].timestamp
    /\ Len(ret.val) >= 1
    /\ Len(ret.val) < Len(ret.buf)
    /\ \E k \in 1..Len(ret.val) : ret.val[k].timestamp = ret.b

----------------------------------------------------------------------------
(* SpecConc: DataBuffer shared by the polling thread, which calls add(),   *)
(* and reader threads. A method is: enter `with self.lock`, run its body,  *)
(* leave the lock, return. The body is one step (a single call on the      *)
(* deque) except get_by_time_range, whose for loop takes one step per      *)
(* item. The ghost `added` of SpecBuf is not kept here.                    *)

ReadOps == {"get_all", "get_last_n", "get_by_time_range", "get_latest", "size"}

\* the timestamps of the samples the polling thread adds, and the bounds
\* the readers query
ConcTimestamps == {1, 2}

\* the calls the reader threads make: r1 reads, r2 clears
ReaderCalls(t) ==
    IF t = "r1"
    THEN {[op |-> o, a |-> 0, b |-> 0] : o \in {"get_all", "get_latest", "size"}}
         \cup {[op |-> "get_last_n", a |-> n, b |-> 0] : n \in 1..BufCap}
         \cup {[op |-> "get_by_time_range", a |-> t0, b |-> t1] :
                  t0 \in ConcTimestamps, t1 \in ConcTimestamps}
    ELSE {[op |-> "clear", a |-> 0, b |-> 0]}

\* what a read method returns on the deque content buf
ReadResult(c, buf) ==
    CASE c.op = "get_all" -> GetAll(buf)
      [] c.op = "get_last_n" -> GetLastN(buf, c.a)
      [] c.op = "get_by_time_range" -> GetByTimeRange(buf, c.a, c.b)
      [] c.op = "get_latest" -> GetLatest(buf)
      [] c.op = "size" -> Size(buf)

\* threads that are inside a read that has not left the lock yet
InCall(t) == pc[t] \in {"acquire", "body", "release"} /\ call[t].op \in ReadOps

\* ghost: every call in progress has now also seen the content buf
Observe(buf) ==
    [t \in Threads |-> IF InCall(t) THEN seen[t] \cup {buf} ELSE seen[t]]

\* `with self.lock` entered without waiting for the holder (mutant)
LockFreeIgnored(t) == TRUE

\* threading.Lock.acquire: the lock is taken only when nobody holds it
LockFree(t) == lock = NoThread

\* the polling thread calls self.buffer.add(data) with a new sample
InvokeAdd(ts) ==
    /\ pc[Poller] = "idle"
    /\ nextId <= ConcAdds
    /\ pc' = [pc EXCEPT ![Poller] = "acquire"]
    /\ call' = [call EXCEPT ![Poller] = [op |-> "add", a |-> ts, b |-> nextId]]
    /\ seen' = seen
    /\ nextId' = nextId + 1
    /\ UNCHANGED <<max_size, buffer, added, ret, lock, iter, result>>

\* a reader thread calls one of the other methods
Invoke(t, c) ==
    /\ pc[t] = "idle"
    /\ pc' = [pc EXCEPT ![t] = "acquire"]
    /\ call' = [call EXCEPT ![t] = c]
    /\ seen' = [seen EXCEPT ![t] = IF c.op \in ReadOps THEN {buffer} ELSE {}]
    /\ UNCHANGED <<bufVars, lock, iter, result>>

\* `with self.lock:` entered
Acquire(t) ==
    /\ pc[t] = "acquire"
    /\ LockFree(t)
    /\ lock' = t
    /\ pc' = [pc EXCEPT ![t] = "body"]
    /\ iter' = [iter EXCEPT ![t] =
                 IF call[t].op = "get_by_time_range"
                 THEN [i |-> 1, acc |-> << >>] ELSE iter[t]]
    /\ UNCHANGED <<bufVars, call, result, seen>>

\* add: self.buffer.append(data)
BodyAdd(t) ==
    /\ pc[t] = "body" /\ call[t].op = "add"
    /\ buffer' = DequeAppend(buffer, Sample(call[t].b, call[t].a), max_size)
    /\ seen' = Observe(buffer')
    /\ pc' = [pc EXCEPT ![t] = "release"]
    /\ UNCHANGED <<max_size, added, nextId, ret, lock, call, iter, result>>

\* clear: self.buffer.clear()
BodyClear(t) ==
    /\ pc[t] = "body" /\ call[t].op = "clear"
    /\ buffer' = << >>
    /\ seen' = Observe(buffer')
    /\ pc' = [pc EXCEPT ![t] = "release"]
    /\ UNCHANGED <<max_size, added, nextId, ret, lock, call, iter, result>>

\* get_all, get_last_n, get_latest, size: one expression on the deque
BodyRead(t) ==
    /\ pc[t] = "body"
    /\ call[t].op \in {"get_all", "get_last_n", "get_latest", "size"}
    /\ result' = [result EXCEPT ![t] = ReadResult(call[t], buffer)]
    /\ pc' = [pc EXCEPT ![t] = "release"]
    /\ UNCHANGED <<bufVars, lock, call, iter, seen>>

\* get_by_time_range: one iteration of `for data in self.buffer`
BodyRangeStep(t) ==
    /\ pc[t] = "body" /\ call[t].op = "get_by_time_range"
    /\ iter[t].i <= Len(buffer)
    /\ iter' = [iter EXCEPT ![t] =
                 [i |-> iter[t].i + 1,
                  acc |-> RangeStep(iter[t].acc, buffer[iter[t].i],
                                    call[t].a, call[t].b)]]
    /\ UNCHANGED <<bufVars, lock, pc, call, result, seen>>

\* get_by_time_range: the loop is exhausted, `return result`
BodyRangeEnd(t) ==
    /\ pc[t] = "body" /\ call[t].op = "get_by_time_range"
    /\ iter[t].i > Len(buffer)
    /\ result' = [result EXCEPT ![t] = iter[t].acc]
    /\ iter' = [iter EXCEPT ![t] = [i |-> 0, acc |-> << >>]]
    /\ pc' = [pc EXCEPT ![t] = "release"]
    /\ UNCHANGED <<bufVars, lock, call, seen>>

\* the with block is left: the lock is released
Release(t) ==
    /\ pc[t] = "release"
    /\ lock' = NoThread
    /\ pc' = [pc EXCEPT ![t] = "returned"]
    /\ UNCHANGED <<bufVars, call, iter, result, seen>>

\* the caller has the returned value and goes on
Return(t) ==
    /\ pc[t] = "returned"
    /\ pc' = [pc EXCEPT ![t] = "idle"]
    /\ call' = [call EXCEPT ![t] = NoCall]
    /\ result' = [result EXCEPT ![t] = << >>]
    /\ seen' = [seen EXCEPT ![t] = {}]
    /\ UNCHANGED <<bufVars, lock, iter>>

InitConc == BufInit /\ ConcIdle /\ DetIdle /\ ColIdle /\ BusIdle /\ AuxIdle

NextConc ==
    \/ \E ts \in ConcTimestamps : InvokeAdd(ts) /\ UNCHANGED <<detVars, colVars, busVars, auxVars>>
    \/ \E t \in Readers : \E c \in ReaderCalls(t) :
          Invoke(t, c) /\ UNCHANGED <<detVars, colVars, busVars, auxVars>>
    \/ \E t \in Threads : Acquire(t) /\ UNCHANGED <<detVars, colVars, busVars, auxVars>>
    \/ \E t \in Threads : BodyAdd(t) /\ UNCHANGED <<detVars, colVars, busVars, auxVars>>
    \/ \E t \in Threads : BodyClear(t) /\ UNCHANGED <<detVars, colVars, busVars, auxVars>>
    \/ \E t \in Threads : BodyRead(t) /\ UNCHANGED <<detVars, colVars, busVars, auxVars>>
    \/ \E t \in Threads : BodyRangeStep(t) /\ UNCHANGED <<detVars, colVars, busVars, auxVars>>
    \/ \E t \in Threads : BodyRangeEnd(t) /\ UNCHANGED <<detVars, colVars, busVars, auxVars>>
    \/ \E t \in Threads : Release(t) /\ UNCHANGED <<detVars, colVars, busVars, auxVars>>
    \/ \E t \in Threads : Return(t) /\ UNCHANGED <<detVars, colVars, busVars, auxVars>>

SpecConc == InitConc /\ [][NextConc]_vars

\* C2: with the polling thread calling add() concurrently with reader
\* threads, every read returns exactly what the method yields on the buffer
\* content of one single instant between the read's call and its return.
C2_ReadsLinearizable ==
    \A t \in Threads :
        (pc[t] = "returned" /\ call[t].op \in ReadOps)
            => \E c \in seen[t] : result[t] = ReadResult(call[t], c)

\* C2 witness: a time-range read returned while the buffer changed between
\* its call and its return, and it returned something.
C2_Witness ==
    \E t \in Readers :
        /\ pc[t] = "returned"
        /\ call[t].op = "get_by_time_range"
        /\ Cardinality(seen[t]) >= 3
        /\ Len(result[t]) >= 2

----------------------------------------------------------------------------
(* AnomalyDetector. Measured values are integers in hundredths of their    *)
(* unit (12.00 mm/s is 1200); the factors and the hysteresis ratio are in  *)
(* percent (1.15 is 115). A threshold is kept as value * percent, so a     *)
(* measured m exceeds a threshold thr when m * 100 > thr, and reaches the  *)
(* fraction ratio of it when m * 100 * 100 >= thr * ratio.                 *)

\* AnomalyDetector.__init__ defaults, in percent
WarningRmsFactor == 115
CriticalRmsFactor == 130
WarningPeakFactor == 120
CriticalPeakFactor == 150
CrestWarningFactor == 120
CrestCriticalFactor == 150
\* the fixed multipliers of calculate_thresholds, in percent
KurtosisWarningFactor == 130
KurtosisCriticalFactor == 160
HfWarningFactor == 250
HfCriticalFactor == 400
\* calculate_thresholds(std_multiplier=2.0)
StdMultiplier == 2

\* largest min_consecutive tried
MaxMinConsecutive == 3
\* number of detect_anomaly ticks in a run
MaxTicks == 6

\* the axes of the model: one oscillatory axis (an acceleration axis has all
\* five metrics) and the temperature axis
AcAxes == {"ax"}
DcAxes == {"temp"}
Axes == AcAxes \cup DcAxes

\* features.get(key, 0) of one axis of the baseline
Features(m, s, r, p, c, k, h) ==
    [mean |-> m, std |-> s, rms |-> r, peak |-> p, crest_factor |-> c,
     kurtosis |-> k, hf_energy |-> h]

\* Baseline profiles. The first is the one BaselineCalculator.__init__
\* leaves: every axis an empty dict, every feature read as 0. The others are
\* computed profiles; detect_anomaly treats each axis on its own (its
\* thresholds, its tracker, its values), so a computed profile is taken with
\* one axis at a time, as calculate_thresholds(baseline=...) and a loaded
\* baseline file allow.
Profiles ==
    { [a \in Axes |-> Features(0, 0, 0, 0, 0, 0, 0)],
      [a \in AcAxes |-> Features(0, 300, 1000, 1400, 140, 300, 200)],
      [a \in AcAxes |-> Features(0, 300, 1000, 1400, 140, 300, 0)],
      [a \in DcAxes |-> Features(2500, 100, 2502, 2700, 108, 250, 0)],
      [a \in DcAxes |-> Features(-1000, 100, 1005, 1200, 119, 250, 0)] }

\* `x * factor if x else 0`
IfNonZero(x, factor) == IF x # 0 THEN x * factor ELSE 0

\* calculate_thresholds: the thresholds of one axis from its features
AxisThresholds(axis, f) ==
    IF axis \in AcAxes
    THEN [warning |-> f.rms * WarningRmsFactor,
          critical |-> f.rms * CriticalRmsFactor,
          warning_peak |-> f.peak * WarningPeakFactor,
          critical_peak |-> f.peak * CriticalPeakFactor,
          warning_crest |-> IfNonZero(f.crest_factor, CrestWarningFactor),
          critical_crest |-> IfNonZero(f.crest_factor, CrestCriticalFactor),
          kurtosis_warning |-> IfNonZero(f.kurtosis, KurtosisWarningFactor),
          kurtosis_critical |-> IfNonZero(f.kurtosis, KurtosisCriticalFactor),
          hf_warning |-> IfNonZero(f.hf_energy, HfWarningFactor),
          hf_critical |-> IfNonZero(f.hf_energy, HfCriticalFactor),
          rms_baseline |-> f.rms,
          method |-> "rms_factor"]
    ELSE [warning |-> f.mean * 100 + f.std * StdMultiplier * 100,
          critical |-> f.mean * 100 + f.std * StdMultiplier * 150,
          rms_baseline |-> f.rms,
          method |-> "mean_std"]

\* calculate_thresholds(baseline)
ComputeThresholds(b) == [a \in DOMAIN b |-> AxisThresholds(a, b[a])]

\* m > thr
Exceeds(m, thr) == m * 100 > thr

\* the running evaluation of one axis: status_raw, metric_value and the
\* threshold pair the later stages and the hysteresis use; of, wof and cof
\* name the metric that metric_value, warning_thr and critical_thr belong
\* to
Eval(st, mv, w, c, of, wof, cof) ==
    [status_raw |-> st, metric_value |-> mv, warning_thr |-> w,
     critical_thr |-> c, of |-> of, wof |-> wof, cof |-> cof]

\* the metric the warning/critical pair of an axis is derived from
BaseMetric(threshold) ==
    IF threshold.method = "rms_factor" THEN "rms" ELSE "value"

\* abs(x)
Abs(x) == IF x < 0 THEN -x ELSE x

\* lines 438-442: the evaluation starts normal, with |current_val| and the
\* axis's warning/critical pair
EvalStart(threshold, inp) ==
    Eval("normal", Abs(inp.val), threshold.warning, threshold.critical,
         "value", BaseMetric(threshold), BaseMetric(threshold))

\* lines 452-457: RMS against the warning/critical pair
RmsStage(e, threshold, inp) ==
    LET st == IF Exceeds(inp.rms, e.critical_thr) THEN "anomaly"
              ELSE IF Exceeds(inp.rms, e.warning_thr) THEN "warning"
              ELSE e.status_raw
    IN  Eval(st, inp.rms, e.warning_thr, e.critical_thr, "rms", e.wof, e.cof)

\* lines 459-464: peak against its own pair; the threshold pair kept for
\* the hysteresis stays the RMS pair
PeakStage(e, threshold, inp) ==
    IF Exceeds(inp.peak, threshold.critical_peak)
    THEN Eval("anomaly", inp.peak, e.warning_thr, e.critical_thr,
              "peak", e.wof, e.cof)
    ELSE IF Exceeds(inp.peak, threshold.warning_peak) /\ e.status_raw # "anomaly"
    THEN Eval("warning", inp.peak, e.warning_thr, e.critical_thr,
              "peak", e.wof, e.cof)
    ELSE e

\* lines 466-471: crest factor against its own pair
CrestStage(e, threshold, inp) ==
    IF Exceeds(inp.crest, threshold.critical_crest)
    THEN Eval("anomaly", inp.crest, e.warning_thr, e.critical_thr,
              "crest", e.wof, e.cof)
    ELSE IF Exceeds(inp.crest, threshold.warning_crest) /\ e.status_raw # "anomaly"
    THEN Eval("warning", inp.crest, e.warning_thr, e.critical_thr,
              "crest", e.wof, e.cof)
    ELSE e

\* `x or y`
OrElse(x, y) == IF x # 0 THEN x ELSE y

\* lines 473-487 and 489-503: kurtosis and high-frequency energy, each
\* against its own pair (w, c), which then replaces the pair kept for the
\* hysteresis
PairStage(e, w, c, val, metric) ==
    IF w # 0 \/ c # 0
    THEN IF c # 0 /\ Exceeds(val, c)
         THEN Eval("anomaly", val, OrElse(w, e.warning_thr), c,
                   metric, IF w # 0 THEN metric ELSE e.wof, metric)
         ELSE IF w # 0 /\ Exceeds(val, w) /\ e.status_raw # "anomaly"
         THEN Eval("warning", val, w, OrElse(c, e.critical_thr),
                   metric, metric, IF c # 0 THEN metric ELSE e.cof)
         ELSE e
    ELSE e

\* lines 506-511: a mean_std axis, or no window: |current_val| directly
ValueStage(e, inp) ==
    LET st == IF Exceeds(Abs(inp.val), e.critical_thr) THEN "anomaly"
              ELSE IF Exceeds(Abs(inp.val), e.warning_thr) THEN "warning"
              ELSE e.status_raw
    IN  Eval(st, Abs(inp.val), e.warning_thr, e.critical_thr,
             "value", e.wof, e.cof)

\* lines 438-511: the raw severity of one axis
RawSeverity(threshold, inp) ==
    LET e0 == EvalStart(threshold, inp)
    IN  IF threshold.method = "rms_factor" /\ inp.window
        THEN LET e1 == RmsStage(e0, threshold, inp)
                 e2 == PeakStage(e1, threshold, inp)
                 e3 == CrestStage(e2, threshold, inp)
                 e4 == PairStage(e3, threshold.kurtosis_warning,
                                 threshold.kurtosis_critical, inp.kurtosis,
                                 "kurtosis")
             IN  PairStage(e4, threshold.hf_warning, threshold.hf_critical,
                           inp.hf_energy, "hf_energy")
        ELSE ValueStage(e0, inp)

\* metric_value >= thr * self.hysteresis_ratio
Reaches(m, thr, ratio) == m * 100 * 100 >= thr * ratio

\* the hysteresis without the hold of a raised state (mutant)
HysteresisNone(e, last_state, ratio) == e.status_raw

\* lines 514-520: a raised state is held while the metric is at or above the
\* ratio of the threshold
Hysteresis(e, last_state, ratio) ==
    IF last_state = "anomaly" /\ Reaches(e.metric_value, e.critical_thr, ratio)
    THEN "anomaly"
    ELSE IF last_state = "warning" /\ Reaches(e.metric_value, e.warning_thr, ratio)
    THEN (IF e.status_raw # "anomaly" THEN "warning" ELSE e.status_raw)
    ELSE e.status_raw

\* the streak update in which a warning tick keeps the critical streak
\* (mutant)
StreaksKeepCritical(tracker, status_raw) ==
    IF status_raw = "anomaly"
    THEN [tracker EXCEPT !.critical_streak = @ + 1, !.warning_streak = @ + 1]
    ELSE IF status_raw = "warning"
    THEN [tracker EXCEPT !.warning_streak = @ + 1]
    ELSE [tracker EXCEPT !.critical_streak = 0, !.warning_streak = 0]

\* the streak update in which an anomaly tick counts for the critical
\* streak alone (mutant)
StreaksCriticalOnly(tracker, status_raw) ==
    IF status_raw = "anomaly"
    THEN [tracker EXCEPT !.critical_streak = @ + 1]
    ELSE IF status_raw = "warning"
    THEN [tracker EXCEPT !.critical_streak = 0, !.warning_streak = @ + 1]
    ELSE [tracker EXCEPT !.critical_streak = 0, !.warning_streak = 0]

\* lines 523-531: the streak counters
Streaks(tracker, status_raw) ==
    IF status_raw = "anomaly"
    THEN [tracker EXCEPT !.critical_streak = @ + 1, !.warning_streak = @ + 1]
    ELSE IF status_raw = "warning"
    THEN [tracker EXCEPT !.critical_streak = 0, !.warning_streak = @ + 1]
    ELSE [tracker EXCEPT !.critical_streak = 0, !.warning_streak = 0]

\* the status confirmed one tick early (mutant)
ConfirmedEarly(tracker, mc) ==
    IF tracker.critical_streak + 1 >= mc THEN "anomaly"
    ELSE IF tracker.warning_streak + 1 >= mc THEN "warning"
    ELSE "normal"

\* the warning confirmed one tick early (mutant)
ConfirmedWarningEarly(tracker, mc) ==
    IF tracker.critical_streak >= mc THEN "anomaly"
    ELSE IF tracker.warning_streak + 1 >= mc THEN "warning"
    ELSE "normal"

\* lines 533-538: the status once a streak reaches min_consecutive
Confirmed(tracker, mc) ==
    IF tracker.critical_streak >= mc THEN "anomaly"
    ELSE IF tracker.warning_streak >= mc THEN "warning"
    ELSE "normal"

\* lines 433-437: state_tracker.setdefault(axis_name, {...})
FreshTracker == [warning_streak |-> 0, critical_streak |-> 0, last_state |-> "normal"]
TrackerOf(a) == IF a \in DOMAIN state_tracker THEN state_tracker[a] ELSE FreshTracker

\* lines 432-539 for one axis: what the tick computes
AxisTick(a, inp) ==
    LET tracker == TrackerOf(a)
        e == RawSeverity(thresholds[a], inp)
        held == Hysteresis(e, tracker.last_state, hysteresis_ratio)
        counted == Streaks(tracker, held)
        status == Confirmed(counted, min_consecutive)
    IN  [eval |-> e, status_raw |-> held, status |-> status,
         tracker |-> [counted EXCEPT !.last_state = status]]

----------------------------------------------------------------------------
(* SpecDet: a detector over a fixed baseline, evaluated tick by tick.      *)

\* What one tick gives an axis. With a window the metrics are those of
\* window_vals: rms, crest = peak / rms, kurtosis and high-frequency energy
\* (0 when the sample rate is 0 or below twice the cutoff).
WindowInput(r, c, k, h) ==
    [window |-> TRUE, val |-> r, rms |-> r, peak |-> (r * c) \div 100,
     crest |-> c, kurtosis |-> k, hf_energy |-> h]

\* window_vals empty, or use_rms false
ValueInput(v) ==
    [window |-> FALSE, val |-> v, rms |-> 0, peak |-> 0, crest |-> 0,
     kurtosis |-> 0, hf_energy |-> 0]

RmsValues == {1000, 1200, 1400}
CrestValues == {120, 170, 220}
KurtosisValues == {300, 420, 500}
HfValues == {0, 600, 900}

\* an all-zero window, constant windows (crest 1, no variance, so kurtosis
\* 0), varying windows, and a tick without a window
AcInputs ==
    {WindowInput(0, 0, 0, 0)}
    \cup {WindowInput(r, 100, 0, 0) : r \in RmsValues}
    \cup {WindowInput(r, c, k, h) : r \in RmsValues, c \in CrestValues,
                                     k \in KurtosisValues, h \in HfValues}
    \cup {ValueInput(1400)}

\* temperatures: at the computed baseline's mean, above its warning, above
\* its critical threshold, and at the sub-zero baseline's mean
DcInputs == {ValueInput(v) : v \in {2500, 2750, 2900, -1000}}

\* the values offered to the axes of a set: one arbitrary value when none
\* of them has thresholds, since detect_anomaly then skips them
InputsOf(axes, inputs) ==
    IF axes \cap DOMAIN thresholds # {} THEN inputs ELSE {ValueInput(0)}

HysteresisRatios == {50, 90}

NoTrace ==
    [hist |-> << >>, prevStatus |-> "none",
     allCrit |-> TRUE, band |-> FALSE, sawWarning |-> FALSE,
     compared |-> [metric |-> "none", warning |-> "none", critical |-> "none"]]

\* the metric an axis is judged by: the window's RMS for an rms_factor axis
\* with a window, |current_val| otherwise
PrimaryMetric(a, inp) ==
    IF thresholds[a].method = "rms_factor" /\ inp.window
    THEN inp.rms ELSE Abs(inp.val)

\* the last n items of s
KeepLast(s, n) == IF Len(s) <= n THEN s ELSE SubSeq(s, Len(s) - n + 1, Len(s))

\* ghost: what the tick saw and decided for axis a
TraceOf(a, inp, r) ==
    LET old == IF a \in DOMAIN trace THEN trace[a] ELSE NoTrace
        pm == PrimaryMetric(a, inp)
        crit == thresholds[a].critical
    IN  [hist |-> KeepLast(Append(old.hist, r.status_raw), MaxMinConsecutive),
         prevStatus |-> TrackerOf(a).last_state,
         allCrit |-> old.allCrit /\ Exceeds(pm, crit),
         band |-> ~Exceeds(pm, crit) /\ pm * 100 # crit
                  /\ Reaches(pm, crit, hysteresis_ratio),
         sawWarning |-> old.sawWarning \/ r.status = "warning",
         compared |-> [metric |-> r.eval.of, warning |-> r.eval.wof,
                       critical |-> r.eval.cof]]

\* AnomalyDetector.__init__ over a BaselineCalculator holding one of the
\* profiles
DetInit ==
    /\ baseline \in Profiles
    /\ thresholds = << >>
    /\ \E m \in 0..MaxMinConsecutive : min_consecutive = Max(1, m)
    /\ hysteresis_ratio \in HysteresisRatios
    /\ state_tracker = << >>
    /\ anomaly_results = << >>
    /\ tick = 0
    /\ trace = << >>

\* AnomalyDetector.calculate_thresholds()
CalculateThresholds ==
    /\ thresholds' = ComputeThresholds(baseline)
    /\ UNCHANGED <<baseline, min_consecutive, hysteresis_ratio, state_tracker,
                   anomaly_results, tick, trace>>

\* a detect_anomaly that starts every tracker afresh when it has no
\* thresholds
DetectWithoutThresholdsResets ==
    /\ DOMAIN thresholds = {}
    /\ anomaly_results' = << >>
    /\ state_tracker' = << >>
    /\ UNCHANGED <<baseline, thresholds, min_consecutive, hysteresis_ratio,
                   tick, trace>>

\* detect_anomaly while self.thresholds is empty: `return {}`
DetectWithoutThresholds ==
    /\ DOMAIN thresholds = {}
    /\ anomaly_results' = << >>
    /\ UNCHANGED <<baseline, thresholds, min_consecutive, hysteresis_ratio,
                   state_tracker, tick, trace>>

\* detect_anomaly(current_data, window_data): every axis that has
\* thresholds is evaluated, its tracker updated and its status returned
DetectAnomaly(inputs) ==
    /\ DOMAIN thresholds # {}
    /\ tick < MaxTicks
    /\ LET r == [a \in DOMAIN thresholds |-> AxisTick(a, inputs[a])]
       IN  /\ state_tracker' =
                 [a \in DOMAIN state_tracker \cup DOMAIN thresholds |->
                     IF a \in DOMAIN thresholds THEN r[a].tracker
                     ELSE state_tracker[a]]
           /\ anomaly_results' =
                 [a \in DOMAIN thresholds |->
                     [status |-> r[a].status,
                      threshold_warning |-> thresholds[a].warning,
                      threshold_critical |-> thresholds[a].critical]]
           /\ trace' =
                 [a \in DOMAIN trace \cup DOMAIN thresholds |->
                     IF a \in DOMAIN thresholds
                     THEN TraceOf(a, inputs[a], r[a]) ELSE trace[a]]
    /\ tick' = tick + 1
    /\ UNCHANGED <<baseline, thresholds, min_consecutive, hysteresis_ratio>>

InitDet == BufIdle /\ ConcIdle /\ DetInit /\ ColIdle /\ BusIdle /\ AuxIdle

NextDet ==
    \/ CalculateThresholds /\ UNCHANGED <<bufVars, concVars, colVars, busVars, auxVars>>
    \/ DetectWithoutThresholds /\ UNCHANGED <<bufVars, concVars, colVars, busVars, auxVars>>
    \/ \E ia \in InputsOf(AcAxes, AcInputs), it \in InputsOf(DcAxes, DcInputs) :
          /\ DetectAnomaly([a \in Axes |-> IF a \in AcAxes THEN ia ELSE it])
          /\ UNCHANGED <<bufVars, concVars, colVars, busVars, auxVars>>

SpecDet == InitDet /\ [][NextDet]_vars

----------------------------------------------------------------------------
(* Claims about detect_anomaly.                                            *)

\* the last n entries of the severities kept for axis a are all in set
LastAllIn(a, n, set) ==
    LET h == trace[a].hist
    IN  /\ Len(h) >= n
        /\ \A i \in (Len(h) - n + 1)..Len(h) : h[i] \in set

\* C4: the reported status of an axis is Anomaly only if its severity after
\* hysteresis was anomaly on at least min_consecutive consecutive ticks
\* ending at this tick, and Warning only if it was warning or worse on that
\* many; so with min_consecutive >= 2 a tick that follows a normal tick, or
\* is the first, never reports a raised status.
C4_DebounceSafety ==
    \A a \in DOMAIN trace :
        LET st == anomaly_results[a].status
            h == trace[a].hist
        IN  /\ st = "anomaly" => LastAllIn(a, min_consecutive, {"anomaly"})
            /\ st = "warning" =>
                  LastAllIn(a, min_consecutive, {"warning", "anomaly"})
            /\ (min_consecutive >= 2
                /\ (Len(h) = 1 \/ (Len(h) >= 2 /\ h[Len(h) - 1] = "normal")))
                  => st = "normal"

\* C4 witness: with min_consecutive 2 and positive thresholds, an axis was
\* normal, then anomalous twice, and reports Anomaly.
C4_Witness ==
    \E a \in DOMAIN trace :
        /\ min_consecutive = 2
        /\ thresholds[a].warning > 0
        /\ trace[a].hist = <<"normal", "anomaly", "anomaly">>
        /\ anomaly_results[a].status = "anomaly"

\* C5: from a fresh tracker, while the axis's input is above its critical
\* threshold on every tick, the status is not Anomaly on the first
\* min_consecutive - 1 ticks and is Anomaly on tick min_consecutive (and on
\* the ticks after it).
C5_AnomalyAtMinConsecutive ==
    \A a \in DOMAIN trace :
        trace[a].allCrit =>
            (anomaly_results[a].status = "anomaly" <=> tick >= min_consecutive)

\* C5 witness: min_consecutive 3, positive thresholds, three ticks above
\* critical: Anomaly on the third.
C5_Witness ==
    \E a \in DOMAIN trace :
        /\ min_consecutive = 3
        /\ thresholds[a].critical > 0
        /\ trace[a].allCrit
        /\ tick = 3
        /\ anomaly_results[a].status = "anomaly"

\* C6: if the axis's status on the previous tick was Anomaly and on this
\* tick its metric is below its critical threshold but at least
\* critical * hysteresis_ratio, the status of this tick is still Anomaly.
C6_AnomalyHeldInBand ==
    \A a \in DOMAIN trace :
        (trace[a].prevStatus = "anomaly" /\ trace[a].band)
            => anomaly_results[a].status = "anomaly"

\* C7, as claimed: under a constant above-critical input from Normal with
\* min_consecutive 3, some tick reports Warning before the first tick that
\* reports Anomaly.
C7_WarningBeforeAnomaly ==
    \A a \in DOMAIN trace :
        (min_consecutive = 3 /\ trace[a].allCrit
         /\ anomaly_results[a].status = "anomaly")
            => trace[a].sawWarning

\* C7, amended: under a constant above-critical input from Normal with
\* min_consecutive 3, the statuses are Normal, Normal, Anomaly: no tick
\* reports Warning, and the third tick is the first to report Anomaly.
C7_NormalThenAnomaly ==
    \A a \in DOMAIN trace :
        (min_consecutive = 3 /\ trace[a].allCrit) =>
            /\ ~trace[a].sawWarning
            /\ tick < 3 => anomaly_results[a].status = "normal"
            /\ tick >= 3 => anomaly_results[a].status = "anomaly"

\* C7 witness: the third tick of such a run, with positive thresholds on an
\* oscillatory axis, reporting Anomaly with no Warning before it.
C7_Witness ==
    \E a \in DOMAIN trace :
        /\ min_consecutive = 3
        /\ thresholds[a].method = "rms_factor"
        /\ thresholds[a].critical > 0
        /\ trace[a].allCrit
        /\ tick = 3
        /\ trace[a].hist = <<"anomaly", "anomaly", "anomaly">>
        /\ anomaly_results[a].status = "anomaly"
        /\ ~trace[a].sawWarning

----------------------------------------------------------------------------
(* SpecCol: DataCollector. One controlling thread calls start(), stop() and *)
(* the sensor's connect()/disconnect(); every start() that goes through    *)
(* spawns a polling thread running _collect_data_loop. thread is the       *)
(* sequence of the Thread objects spawned so far, self.thread being the    *)
(* last. on_data_received and on_error are taken as unset, or as code that *)
(* returns and does not touch the collector; on_connection_lost is one of  *)
(* CallbackKinds, and in SpecCol it returns.                               *)
(* colGhost.lastStart, colGhost.events and colGhost.lost describe the step *)
(* just taken and are reset by the next one.                               *)
(* Time is counted in units of 0.05 s.                                     *)

\* max_consecutive_errors = 5
MaxConsecutiveErrors == 5

\* collection_interval = 0.1
CollectionInterval == 2

\* number of polling threads a run may spawn
MaxThreads == 2
\* number of read_all_data calls in a run
MaxReads == 2

\* what on_connection_lost does: it returns (or is unset); it raises; or it
\* is the window's handler, which calls collector.stop() on the thread that
\* runs the callback
CallbackKinds == {"returns", "raises", "stops"}

\* a Thread object about to run _collect_data_loop: consecutive_errors = 0,
\* at the while test. delay is the length of the sleep it is in. Ghosts:
\* sig, the stop signal was set while this loop was alive; add, the samples
\* it added after that (counted up to 2); disc, the number of cycles in a
\* row, up to the last one, whose connection test found the sensor
\* disconnected.
NewThread ==
    [pc |-> "top", consecutive_errors |-> 0, delay |-> 0, sig |-> FALSE,
     add |-> 0, disc |-> 0]

\* a Thread object whose loop has ended (its locals are gone)
Ended == [NewThread EXCEPT !.pc = "done"]

\* Thread.is_alive()
Alive(t) == t.pc # "done"

\* start() refused only while running: the sensor's connection is not
\* looked at (mutant)
StartRefusedIfRunning(running, connected) == running

\* start(): `if self.is_running: return False`, then
\* `if not self.sensor.is_connected: ... return False`
StartRefused(running, connected) == running \/ ~connected

\* thread.join(timeout=5.0) gives up while the thread is inside a call that
\* can outlast the wait: read_all_data (five register reads of up to 1.05 s
\* each) or time.sleep(collection_interval)
JoinTimesOut(t) == t.pc \in {"read", "sleep"}

\* lines 207-214: the except clause calls on_error itself, outside any
\* try; a raising on_error leaves _collect_data_loop with the exception
\* and the thread ends
AfterCaught(t) == IF on_error = "raises" THEN Ended ELSE t

\* the event of a loop ended by an exception
Crashed == IF on_error = "raises" THEN {"loop_crashed"} ELSE {}

\* the event of a call of on_error, kept when the run follows one session
OnError == IF colGhost.session THEN {"on_error"} ELSE {}

\* the ghost after a step that is none of the events
Silent(g) == [g EXCEPT !.lastStart = NoStart, !.events = {}, !.lost = NoLost]

\* DataCollector.__init__(sensor, buffer_size, collection_interval), with a
\* callback of kind cb and a run of at most reads reads, followed as one
\* session or not
ColInitWith(cb, reads, session) ==
    /\ max_size = BufCap
    /\ buffer = << >>
    /\ added = << >>
    /\ nextId = 1
    /\ ret = NoRet
    /\ is_running = FALSE
    /\ stop_event = FALSE
    /\ thread = << >>
    /\ stats = NoStats
    /\ sensor_connected \in BOOLEAN
    /\ ctl = "idle"
    /\ clock = 0
    /\ colGhost = [NoEvents EXCEPT !.budget = reads, !.session = session]
    /\ on_connection_lost = cb

ColInit == ColInitWith("returns", MaxReads, FALSE) /\ on_error = "returns"

\* DataCollector.start()
Start ==
    /\ ctl = "idle"
    /\ IF StartRefused(is_running, sensor_connected)
       THEN /\ UNCHANGED <<is_running, stop_event, thread, stats, clock>>
       ELSE /\ Len(thread) < MaxThreads
            /\ is_running' = TRUE
            /\ stop_event' = FALSE
            /\ clock' = clock + 1
            /\ stats' = [total_readings |-> 0, failed_readings |-> 0,
                         start_time |-> clock + 1]
            /\ thread' = Append(thread, NewThread)
    /\ colGhost' =
          [Silent(colGhost) EXCEPT
              !.lastStart =
                  [called |-> TRUE, was_running |-> is_running,
                   was_connected |-> sensor_connected,
                   returned |-> ~StartRefused(is_running, sensor_connected),
                   kept |-> /\ is_running' = is_running
                            /\ stats' = stats
                            /\ Len(thread') = Len(thread)],
              !.events =
                  (IF /\ Len(thread') > Len(thread)
                      /\ \E i \in 1..Len(thread) : Alive(thread[i])
                   THEN {"start_over_live_loop"} ELSE {})
                  \cup (IF ~is_running /\ ~sensor_connected
                        THEN OnError ELSE {}),
              !.stopped = @ /\ Len(thread') = Len(thread),
              !.completed = IF Len(thread') > Len(thread) THEN 0 ELSE @,
              !.lost_n = IF Len(thread') > Len(thread) THEN 0 ELSE @]
    /\ UNCHANGED <<sensor_connected, ctl, bufVars>>

\* stop_event.set(), as the ghost sees it: every live loop has been signalled
Signalled(th) ==
    [i \in 1..Len(th) |->
        IF Alive(th[i]) THEN [th[i] EXCEPT !.sig = TRUE] ELSE th[i]]

\* DataCollector.stop() up to the join: nothing when not running; otherwise
\* is_running = False, stop_event.set(), and the wait for self.thread
Stop ==
    /\ ctl = "idle"
    /\ IF ~is_running
       THEN /\ UNCHANGED <<is_running, stop_event, thread, ctl>>
            /\ colGhost' = [Silent(colGhost) EXCEPT !.stopped = TRUE]
       ELSE /\ is_running' = FALSE
            /\ stop_event' = TRUE
            /\ thread' = Signalled(thread)
            /\ IF Len(thread) > 0
               THEN /\ ctl' = "joining"
                    /\ colGhost' = Silent(colGhost)
               ELSE /\ ctl' = "idle"
                    /\ colGhost' = [Silent(colGhost) EXCEPT !.stopped = TRUE]
    /\ UNCHANGED <<stats, sensor_connected, clock, bufVars>>

\* self.thread.join(timeout=5.0) returns, and stop() with it: the thread
\* has ended, or the wait has expired
JoinReturns ==
    /\ ctl = "joining"
    /\ \/ ~Alive(thread[Len(thread)])
       \/ JoinTimesOut(thread[Len(thread)])
    /\ ctl' = "idle"
    /\ colGhost' = [Silent(colGhost) EXCEPT !.stopped = TRUE]
    /\ UNCHANGED <<is_running, stop_event, thread, stats, sensor_connected,
                   clock, bufVars>>

\* WTVBSensor.connect() succeeding
SensorConnect ==
    /\ ctl = "idle"
    /\ ~sensor_connected
    /\ sensor_connected' = TRUE
    /\ colGhost' = Silent(colGhost)
    /\ UNCHANGED <<is_running, stop_event, thread, stats, ctl, clock,
                   bufVars>>

\* WTVBSensor.disconnect()
SensorDisconnect ==
    /\ ctl = "idle"
    /\ sensor_connected
    /\ sensor_connected' = FALSE
    /\ colGhost' = Silent(colGhost)
    /\ UNCHANGED <<is_running, stop_event, thread, stats, ctl, clock,
                   bufVars>>

\* the events of a loop beginning a cycle
CycleEvents(t) == IF t.sig THEN {"cycle_after_signal"} ELSE {}

\* the events of a loop doing what (a read, an add)
AfterStop(what) == IF colGhost.stopped THEN {what} ELSE {}

\* the sleep after a read, growing with the count of failures (mutant)
DelayWithBackoff(consecutive_errors, read_time) ==
    CollectionInterval * (consecutive_errors + 1)

\* lines 203-205: remaining_time = collection_interval - read_time, slept
\* when positive; the count of failures has no part in it
DelayAfterRead(consecutive_errors, read_time) ==
    Max(0, CollectionInterval - read_time)

\* the loop after a cycle: in time.sleep(d), or at the while test when there
\* is no sleep
Sleeping(t, d) == [t EXCEPT !.pc = IF d > 0 THEN "sleep" ELSE "top", !.delay = d]

\* the threshold reached at the first error (mutant)
ReachesMaxAtOnce(consecutive_errors) == consecutive_errors >= 1

\* consecutive_errors >= max_consecutive_errors
ReachesMax(consecutive_errors) == consecutive_errors >= MaxConsecutiveErrors

\* calls of a raising on_connection_lost in a session
MaxLost == 2

\* on_connection_lost() run by thread i raises: the callback raises by
\* itself, or it calls stop(), whose self.thread.join() on the calling
\* thread raises RuntimeError
CallbackRaises(i) ==
    \/ on_connection_lost = "raises"
    \/ on_connection_lost = "stops" /\ is_running /\ i = Len(thread)

\* on_connection_lost() gets as far as stop()'s is_running = False and
\* stop_event.set()
CallbackStops == on_connection_lost = "stops" /\ is_running

\* _collect_data_loop, lines 155-169 and 207-214: the while test, then the
\* connection test (nothing the controlling thread does between the two
\* changes what the second one sees). A set stop_event ends the loop. A
\* disconnected sensor counts as an error; when the count reaches the
\* maximum on_connection_lost is called, and the loop ends unless the call
\* raises, which is caught as one more error; otherwise the loop sleeps. A
\* connected sensor is read.
LoopTop(i) ==
    /\ thread[i].pc = "top"
    /\ IF stop_event
       THEN /\ thread' = [thread EXCEPT ![i] = Ended]
            /\ colGhost' = Silent(colGhost)
            /\ UNCHANGED <<is_running, stop_event>>
       ELSE IF ~sensor_connected
       THEN LET errors == thread[i].consecutive_errors + 1
                disc == IF colGhost.session THEN thread[i].disc + 1 ELSE 0
            IN  IF ReachesMax(errors)
                THEN /\ CallbackRaises(i) => colGhost.lost_n < MaxLost
                     /\ is_running' = (is_running /\ ~CallbackStops)
                     /\ stop_event' = (stop_event \/ CallbackStops)
                     /\ thread' =
                           [(IF CallbackStops THEN Signalled(thread)
                             ELSE thread) EXCEPT ![i] =
                               IF CallbackRaises(i)
                               THEN AfterCaught(Sleeping([@ EXCEPT
                                        !.consecutive_errors = errors + 1,
                                        !.disc = disc], CollectionInterval))
                               ELSE Ended]
                     /\ colGhost' = [Silent(colGhost) EXCEPT
                           !.lost = IF colGhost.session
                                    THEN [invoked |-> TRUE, disc |-> disc,
                                          errors |-> errors]
                                    ELSE NoLost,
                           !.lost_n = IF colGhost.session THEN @ + 1 ELSE @,
                           !.events = CycleEvents(thread[i])
                                      \cup (IF CallbackRaises(i)
                                            THEN OnError \cup Crashed
                                            ELSE {})]
                ELSE /\ thread' = [thread EXCEPT ![i] =
                           Sleeping([@ EXCEPT !.consecutive_errors = errors,
                                              !.disc = disc],
                                    CollectionInterval)]
                     /\ colGhost' = [Silent(colGhost) EXCEPT
                                        !.events = CycleEvents(thread[i])]
                     /\ UNCHANGED <<is_running, stop_event>>
       ELSE /\ colGhost.reads < colGhost.budget
            /\ thread' = [thread EXCEPT ![i] =
                             [@ EXCEPT !.pc = "read", !.disc = 0]]
            /\ colGhost' = [Silent(colGhost) EXCEPT
                               !.reads = @ + 1,
                               !.events = CycleEvents(thread[i])
                                          \cup AfterStop("read_after_stop")]
            /\ UNCHANGED <<is_running, stop_event>>
    /\ UNCHANGED <<stats, sensor_connected, ctl, clock, bufVars>>

\* what read_all_data can give: a SensorData, None, or an exception
ReadOutcomes == {"data", "none", "raise"}

\* lines 169-214: read_all_data returns after read_time. A SensorData is
\* added to the buffer and counted; None counts as a failed reading and
\* on_error is called; an exception is caught and on_error is called. The
\* sleep follows in each case.
ReadReturns(i, outcome, read_time) ==
    /\ thread[i].pc = "read"
    /\ outcome = "data" => sensor_connected
    /\ IF outcome = "data"
       THEN /\ buffer' = DequeAppend(buffer, Sample(nextId, clock), max_size)
            /\ nextId' = nextId + 1
            /\ stats' = [stats EXCEPT !.total_readings = @ + 1]
            /\ thread' = [thread EXCEPT ![i] =
                  Sleeping([@ EXCEPT
                      !.consecutive_errors = 0,
                      !.add = IF thread[i].sig THEN Min(@ + 1, 2) ELSE @],
                      DelayAfterRead(0, read_time))]
            /\ colGhost' = [Silent(colGhost) EXCEPT
                               !.completed = IF colGhost.session THEN @ + 1 ELSE @,
                               !.events = AfterStop("add_after_stop")]
       ELSE /\ stats' = IF outcome = "none"
                        THEN [stats EXCEPT !.failed_readings = @ + 1]
                        ELSE stats
            /\ thread' = [thread EXCEPT ![i] =
                  AfterCaught(
                      Sleeping([@ EXCEPT !.consecutive_errors = @ + 1],
                               IF outcome = "none"
                               THEN DelayAfterRead(
                                        thread[i].consecutive_errors + 1,
                                        read_time)
                               ELSE CollectionInterval))]
            /\ colGhost' = [Silent(colGhost) EXCEPT
                               !.completed = IF colGhost.session THEN @ + 1 ELSE @,
                               !.events = OnError \cup Crashed]
            /\ UNCHANGED <<buffer, nextId>>
    /\ UNCHANGED <<max_size, added, ret, is_running, stop_event,
                   sensor_connected, ctl, clock>>

\* time.sleep(...) returns: back to the while test
SleepReturns(i) ==
    /\ thread[i].pc = "sleep"
    /\ thread' = [thread EXCEPT ![i] = [@ EXCEPT !.pc = "top", !.delay = 0]]
    /\ colGhost' = Silent(colGhost)
    /\ UNCHANGED <<is_running, stop_event, stats, sensor_connected, ctl,
                   clock, bufVars>>

\* what a step of the collector leaves alone
colEnv == <<concVars, detVars, on_connection_lost, on_error, busVars,
            auxVars>>

\* read_all_data's duration in SpecCol: nothing next to collection_interval
ColReadTimes == {0}

InitCol == ColInit /\ ConcIdle /\ DetIdle /\ BusIdle /\ AuxIdle

NextCol ==
    \/ Start /\ UNCHANGED colEnv
    \/ Stop /\ UNCHANGED colEnv
    \/ JoinReturns /\ UNCHANGED colEnv
    \/ SensorConnect /\ UNCHANGED colEnv
    \/ SensorDisconnect /\ UNCHANGED colEnv
    \/ \E i \in 1..Len(thread) :
          \/ LoopTop(i) /\ UNCHANGED colEnv
          \/ \E outcome \in ReadOutcomes, read_time \in ColReadTimes :
                ReadReturns(i, outcome, read_time) /\ UNCHANGED colEnv
          \/ SleepReturns(i) /\ UNCHANGED colEnv

SpecCol == InitCol /\ [][NextCol]_vars

----------------------------------------------------------------------------
(* SpecSes: one session of a DataCollector, from its first start() that    *)
(* goes through: one polling thread, a longer run of reads, reads shorter  *)
(* and longer than collection_interval, and every kind of                  *)
(* on_connection_lost.                                                     *)

\* number of read_all_data calls in a session
SessionReads == 6

\* read_all_data's duration: shorter, or longer, than collection_interval
SesReadTimes == {1, 3}

InitSes ==
    /\ \E cb \in CallbackKinds : ColInitWith(cb, SessionReads, TRUE)
    /\ on_error = "returns"
    /\ ConcIdle
    /\ DetIdle
    /\ BusIdle
    /\ AuxIdle

NextSes ==
    \/ Start /\ Len(thread') <= 1 /\ UNCHANGED colEnv
    \/ Stop /\ UNCHANGED colEnv
    \/ JoinReturns /\ UNCHANGED colEnv
    \/ SensorConnect /\ UNCHANGED colEnv
    \/ SensorDisconnect /\ UNCHANGED colEnv
    \/ \E i \in 1..Len(thread) :
          \/ LoopTop(i) /\ UNCHANGED colEnv
          \/ \E outcome \in ReadOutcomes, read_time \in SesReadTimes :
                ReadReturns(i, outcome, read_time) /\ UNCHANGED colEnv
          \/ SleepReturns(i) /\ UNCHANGED colEnv

SpecSes == InitSes /\ [][NextSes]_vars

----------------------------------------------------------------------------
(* Claims about DataCollector.                                             *)

\* C8: a start() called while the collector is running, or while the sensor
\* is not connected, returns False and leaves is_running, total_readings,
\* failed_readings, start_time and the set of polling threads as they were.
C8_StartRefusedKeepsState ==
    LET c == colGhost.lastStart
    IN  (c.called /\ (c.was_running \/ ~c.was_connected))
            => (~c.returned /\ c.kept)

\* C8 witness: after a run that counted a reading and was stopped, with its
\* loop ended, start() on the disconnected sensor is refused; the counters
\* and start_time of the earlier run are still there.
C8_Witness ==
    LET c == colGhost.lastStart
    IN  /\ c.called /\ ~c.was_running /\ ~c.was_connected
        /\ ~c.returned
        /\ ~is_running
        /\ stats.total_readings >= 1
        /\ stats.start_time >= 1
        /\ Len(thread) = 1

\* C9: once stop() has returned, and until the next start(), every polling
\* loop has terminated; no read is issued and no sample is added after
\* stop() has returned; a start() that goes through finds no loop alive.
C9_StoppedMeansTerminated ==
    /\ colGhost.stopped => \A i \in 1..Len(thread) : ~Alive(thread[i])
    /\ colGhost.events \cap {"read_after_stop", "add_after_stop",
                             "start_over_live_loop"} = {}

\* C10: a loop that was alive when the stop signal was set begins no cycle
\* after it and adds at most one sample after it.
C10_NoCycleAfterStopSignal ==
    /\ "cycle_after_signal" \notin colGhost.events
    /\ \A i \in 1..Len(thread) : thread[i].add <= 1

----------------------------------------------------------------------------
(* Claims about one session of the polling loop (SpecSes).                 *)

\* C11: a loop whose last max_consecutive_errors cycles all failed, with no
\* successful read between them, has ended (and called on_connection_lost),
\* also when the sensor is connected: with a callback that returns, no live
\* loop carries that many consecutive errors.
C11_FifthFailureEndsLoop ==
    on_connection_lost = "returns" =>
        \A i \in 1..Len(thread) :
            Alive(thread[i]) =>
                thread[i].consecutive_errors < MaxConsecutiveErrors

\* C12, as claimed: on_connection_lost is called only when the connection
\* test found the sensor disconnected in each of the last
\* max_consecutive_errors cycles.
C12_LostOnlyAfterDisconnectedRun ==
    colGhost.lost.invoked => colGhost.lost.disc >= MaxConsecutiveErrors

\* C12, amended: on_connection_lost is called only at a connection test that
\* finds the sensor disconnected, and only when consecutive_errors, which
\* counts failed reads and caught exceptions as well as disconnected tests
\* since the last successful read, has reached max_consecutive_errors.
C12_LostAtDisconnectedTestOfFifthError ==
    colGhost.lost.invoked =>
        /\ ~sensor_connected
        /\ colGhost.lost.disc >= 1
        /\ colGhost.lost.errors >= MaxConsecutiveErrors

\* C12 witness: four reads failed while the sensor was connected, then one
\* connection test found it disconnected, and on_connection_lost was called.
C12_Witness ==
    /\ colGhost.lost.invoked
    /\ colGhost.lost.disc = 1
    /\ colGhost.lost.errors = MaxConsecutiveErrors
    /\ stats.failed_readings = 4
    /\ stats.total_readings = 0

\* C13: in a session on_connection_lost is called at most once, and the
\* loop has ended when the call is over: no test, read, sleep or callback
\* follows it.
C13_LostOnceThenLoopEnds ==
    /\ colGhost.lost_n <= 1
    /\ colGhost.lost.invoked =>
          /\ \A i \in 1..Len(thread) : ~Alive(thread[i])
          /\ "on_error" \notin colGhost.events

\* C14: every read attempt of the session that did not give a sample
\* (None, or an exception) was counted in failed_readings and every other
\* one in total_readings: total_readings + failed_readings is the number of
\* read attempts that have returned.
C14_FailedCyclesCounted ==
    stats.total_readings + stats.failed_readings = colGhost.completed

----------------------------------------------------------------------------
(* CRCCalculator: the Modbus CRC-16 of a byte string, computed bit by bit  *)
(* as calculate_crc does. Bytes are 0..255, the register crc is 0..65535.  *)

\* crc = 0xFFFF
CrcInitial == 65535
\* the constant of crc = (crc >> 1) ^ 0xA001
CrcPolynomial == 40961

\* a ^ b on naturals
RECURSIVE BitXor(_, _)
BitXor(a, b) ==
    IF a = 0 THEN b
    ELSE IF b = 0 THEN a
    ELSE ((a + b) % 2) + 2 * BitXor(a \div 2, b \div 2)

\* a shift that forgets the polynomial
CrcShiftOnly(crc) == crc \div 2

\* one round of the inner loop: if crc & 1 then (crc >> 1) ^ 0xA001,
\* else crc >> 1
CrcShift(crc) ==
    IF crc % 2 = 1 THEN BitXor(crc \div 2, CrcPolynomial) ELSE crc \div 2

\* for _ in range(8). crc never leaves 16 bits (the bytes are below 256);
\* testing it has TLC evaluate each round before the next one.
RECURSIVE CrcRounds(_, _)
CrcRounds(crc, n) ==
    IF n = 0 THEN crc
    ELSE LET shifted == CrcShift(crc)
         IN  IF shifted < 65536 THEN CrcRounds(shifted, n - 1)
             ELSE CrcRounds(shifted % 65536, n - 1)

\* for byte in data: crc ^= byte, then the eight rounds
RECURSIVE CrcOver(_, _)
CrcOver(crc, data) ==
    IF data = << >> THEN crc
    ELSE CrcOver(CrcRounds(BitXor(crc, Head(data)), 8), Tail(data))

\* calculate_crc(data): the two bytes CRC_LOW, CRC_HIGH
CalculateCrc(data) ==
    LET crc == CrcOver(CrcInitial, data)
    IN  <<crc % 256, (crc \div 256) % 256>>

\* verify_crc(data): data[-2:] == calculate_crc(data[:-2]), False for fewer
\* than three bytes
VerifyCrc(data) ==
    IF Len(data) < 3 THEN FALSE
    ELSE LET message == SubSeq(data, 1, Len(data) - 2)
             received_crc == SubSeq(data, Len(data) - 1, Len(data))
         IN  received_crc = CalculateCrc(message)

\* a message followed by its CRC
Framed(message) == message \o CalculateCrc(message)

\* 2^n
RECURSIVE Pow2(_)
Pow2(n) == IF n = 0 THEN 1 ELSE 2 * Pow2(n - 1)

\* the byte with bit number bit (0 the lowest) inverted
FlipIn(byte, bit) == BitXor(byte, Pow2(bit))

\* data with one bit of byte number i inverted
FlipBit(data, i, bit) == [data EXCEPT ![i] = FlipIn(data[i], bit)]

----------------------------------------------------------------------------
(* SpecCrc: verify_crc applied to byte strings: arbitrary ones, messages   *)
(* followed by their CRC, and frames that passed with one bit inverted     *)
(* afterwards.                                                             *)

\* longest message (without CRC) tried
MaxMsgLen == 3
\* the byte values messages are made of
CrcBytes == {0, 1, 3, 80, 128, 255}

\* the byte strings of length 0..n over CrcBytes
RECURSIVE BytesUpTo(_)
BytesUpTo(n) ==
    IF n = 0 THEN {<< >>}
    ELSE LET shorter == BytesUpTo(n - 1)
         IN  shorter \cup {Append(m, b) : m \in shorter, b \in CrcBytes}

\* what verify_crc is called with first: any string of up to MaxMsgLen + 2
\* bytes, or a message with its CRC appended
CrcInputs ==
    BytesUpTo(MaxMsgLen) \cup {Framed(m) : m \in BytesUpTo(MaxMsgLen)}

\* a call verify_crc(crc_data)
CallVerifyCrc ==
    /\ crc_ok = "none"
    /\ crc_ok' = IF VerifyCrc(crc_data) THEN "pass" ELSE "fail"
    /\ UNCHANGED <<crc_data, crc_flip>>

\* the line inverts one bit of a frame that had passed verify_crc; the
\* receiver has not looked at the damaged frame yet
LineFlipsBit(i, bit) ==
    /\ crc_ok = "pass"
    /\ crc_flip = NoFlip
    /\ i \in 1..Len(crc_data)
    /\ crc_data' = FlipBit(crc_data, i, bit)
    /\ crc_flip' = [byte |-> i, bit |-> bit]
    /\ crc_ok' = "none"

InitCrc ==
    /\ crc_data \in CrcInputs
    /\ crc_ok = "none"
    /\ crc_flip = NoFlip
    /\ BufIdle /\ ConcIdle /\ DetIdle /\ ColIdle /\ BusIdle /\ CodecIdle
    /\ WrIdle /\ BaseIdle /\ ObsIdle /\ SamIdle /\ CycIdle

crcEnv == <<bufVars, concVars, detVars, colVars, busVars, codec, wr, base,
           obs, sam, cyc>>

NextCrc ==
    \/ CallVerifyCrc /\ UNCHANGED crcEnv
    \/ \E i \in 1..(MaxMsgLen + 2), bit \in 0..7 :
          LineFlipsBit(i, bit) /\ UNCHANGED crcEnv

SpecCrc == InitCrc /\ [][NextCrc]_vars

----------------------------------------------------------------------------
(* SpecBus: ModbusRTU.read_registers on a serial line. The port's input    *)
(* buffer is serial_in: the device, or the noise of the line, appends      *)
(* bytes to it at any time; serial.read(n) takes up to n bytes from its    *)
(* head, fewer when the timeout expires first. read_registers is two       *)
(* steps: the write of the request, and the read after the 50 ms wait.     *)

\* slave_id = 0x50
SlaveId == 80
\* Function Code: Read Holding Registers
ReadHolding == 3
\* most bytes pending on the input at a time
MaxPending == 14
\* the register addresses and counts read_registers is called with
ReadAddresses == {58}
Counts == {1, 2, 65537}
\* the register counts the device answers for
DeviceCounts == {1, 2}

\* command = command_data + crc, the address and the count cut to two bytes
\* by (v >> 8) & 0xFF and v & 0xFF
Request(address, count) ==
    LET command_data == <<SlaveId, ReadHolding,
                           (address \div 256) % 256, address % 256,
                           (count \div 256) % 256, count % 256>>
    IN  Framed(command_data)

\* expected_response_length = 3 + (count * 2) + 2
ExpectedLength(count) == 3 + (count * 2) + 2

\* a response frame for n registers carrying byte_count in its third byte
Reply(n, byte_count) ==
    Framed(<<SlaveId, ReadHolding, byte_count>> \o [i \in 1..(2 * n) |-> i])

\* the exception response of the device: function code + 0x80, one code
ExceptionReply == Framed(<<SlaveId, ReadHolding + 128, 2>>)

\* a frame damaged on the line: the lowest bit of its last byte inverted
Damaged(frame) == FlipBit(frame, Len(frame), 0)

\* what can arrive on the input: the well-formed response for one and for
\* two registers, the one-register response announcing two registers, the
\* exception response, and the one-register response damaged
SoundFrames ==
    UNION {{Reply(n, bc) : bc \in {2 * n, 4}} : n \in DeviceCounts}
        \cup {ExceptionReply}
DeviceFrames == SoundFrames \cup {Damaged(Reply(1, 2))}

\* ModbusRTU.connect(): serial.Serial(...) opens the port with an empty
\* input buffer
Connect ==
    /\ ~sensor_connected
    /\ sensor_connected' = TRUE
    /\ serial_in' = << >>
    /\ UNCHANGED <<last_error, rr>>

\* ModbusRTU.disconnect()
Disconnect ==
    /\ sensor_connected
    /\ sensor_connected' = FALSE
    /\ serial_in' = << >>
    /\ UNCHANGED <<last_error, rr>>

\* bytes arrive on the open port
DeviceSends(frame) ==
    /\ sensor_connected
    /\ Len(serial_in) + Len(frame) <= MaxPending
    /\ serial_in' = serial_in \o frame
    /\ UNCHANGED <<sensor_connected, last_error, rr>>

\* read_registers(address, count) up to time.sleep(0.05): the command is
\* built and handed to _send_command, which refuses when not connected and
\* fails when serial.write raises (port_ok false).
ReadRegisters(address, count, port_ok) ==
    /\ rr.pc # "wait"
    /\ LET command == Request(address, count)
           fresh == [NoRead EXCEPT !.address = address, !.count = count]
       IN  IF sensor_connected /\ port_ok
           THEN /\ rr' = [fresh EXCEPT !.pc = "wait", !.written = command,
                                      !.stale = Len(serial_in)]
                /\ UNCHANGED last_error
           ELSE /\ rr' = [fresh EXCEPT !.pc = "done"]
                /\ last_error' = "send"
    /\ UNCHANGED <<sensor_connected, serial_in>>

\* the rest of read_registers: _read_response(expected_response_length),
\* the test for no response, verify_crc, and data = response[3:-2].
\* _read_response gives None when not connected, when serial.read raises
\* (port_ok false) and when it read nothing.
ReadResponse(port_ok) ==
    /\ rr.pc = "wait"
    /\ LET n == IF sensor_connected /\ port_ok
                THEN Min(ExpectedLength(rr.count), Len(serial_in))
                ELSE 0
           response == SubSeq(serial_in, 1, n)
           done == [rr EXCEPT !.pc = "done", !.response = response,
                              !.stale = Min(rr.stale, n)]
       IN  /\ serial_in' = SubSeq(serial_in, n + 1, Len(serial_in))
           /\ IF n = 0
              THEN /\ last_error' = "no_response"
                   /\ rr' = done
              ELSE IF ~VerifyCrc(response)
              THEN /\ last_error' = "crc"
                   /\ rr' = done
              ELSE /\ UNCHANGED last_error
                   /\ rr' = [done EXCEPT
                               !.returned = "data",
                               !.data = SubSeq(response, 4, Len(response) - 2)]
    /\ UNCHANGED sensor_connected

InitBus ==
    BufIdle /\ ConcIdle /\ DetIdle /\ ColIdle /\ BusIdle /\ AuxIdle

busEnv == <<bufVars, concVars, detVars, auxVars, is_running, stop_event,
            thread, stats, ctl, clock, colGhost, on_connection_lost,
            on_error>>

NextBus ==
    \/ Connect /\ UNCHANGED busEnv
    \/ Disconnect /\ UNCHANGED busEnv
    \/ \E frame \in DeviceFrames : DeviceSends(frame) /\ UNCHANGED busEnv
    \/ \E address \in ReadAddresses, count \in Counts, port_ok \in BOOLEAN :
          ReadRegisters(address, count, port_ok) /\ UNCHANGED busEnv
    \/ \E port_ok \in BOOLEAN : ReadResponse(port_ok) /\ UNCHANGED busEnv

SpecBus == InitBus /\ [][NextBus]_vars

\* C16: read_registers discards the input pending before it sends: no byte
\* that was pending when the request was written is part of a response
\* from which it returns register data.
C16_StaleInputNotAccepted ==
    (rr.returned = "data" /\ rr.data # << >>) => rr.stale = 0

\* C17: read_registers returns data only for a response of exactly
\* 5 + 2 * count bytes whose last two bytes are the CRC of the rest; a
\* shorter response is rejected whatever its CRC.
C17_OnlyFullLengthAccepted ==
    (rr.returned = "data" /\ rr.data # << >>) =>
        /\ Len(rr.response) = 5 + 2 * rr.count
        /\ VerifyCrc(rr.response)

\* C18: a response of the expected length with a valid CRC whose byte-count
\* field is not 2 * count is rejected: read_registers returns None.
C18_ByteCountMismatchRejected ==
    ( /\ rr.pc = "done"
      /\ Len(rr.response) = 5 + 2 * rr.count
      /\ VerifyCrc(rr.response)
      /\ rr.response[3] # 2 * rr.count ) => rr.returned = "none"

\* C20: read_registers called with a count above 0xFFFF writes no frame and
\* returns None.
C20_OversizedCountRefused ==
    (rr.pc # "idle" /\ rr.count > 65535) =>
        (rr.written = << >> /\ rr.returned = "none")

----------------------------------------------------------------------------
(* SpecCodec: WTVBSensor._parse_int16 applied to the two bytes the device  *)
(* sends for a register: every signed 16-bit value, high byte first, in    *)
(* two's complement; and to data too short to hold a register.             *)

\* the signed 16-bit values
Int16 == (0 - Pow2(15))..(Pow2(15) - 1)

\* the device's encoding of a register value v: the 16-bit two's complement
\* of v, high byte first
EncodeInt16(v) ==
    LET u == IF v < 0 THEN v + Pow2(16) ELSE v
    IN  <<u \div 256, u % 256>>

\* a decoding that forgets the sign: (high << 8) | low
ParseInt16Unsigned(data, offset) ==
    IF offset + 1 >= Len(data) THEN 0
    ELSE data[offset + 1] * 256 + data[offset + 2]

\* _parse_int16(data, offset), offset counted from 0 as in the code: 0 when
\* the two bytes are not there; value = (high << 8) | low, the two bytes
\* having no bit in common; then -(0x10000 - value) if value & 0x8000
ParseInt16(data, offset) ==
    IF offset + 1 >= Len(data) THEN 0
    ELSE LET high == data[offset + 1]
             low == data[offset + 2]
             value == high * 256 + low
         IN  IF (value \div Pow2(15)) % 2 = 1
             THEN 0 - (Pow2(16) - value)
             ELSE value

\* a call _parse_int16(codec.data, codec.offset)
CallParseInt16 ==
    /\ codec.pc = "idle"
    /\ codec' = [codec EXCEPT !.pc = "done",
                              !.value = ParseInt16(codec.data, codec.offset)]

\* the register value whose bytes are decoded, and how many of the two
\* bytes have arrived
InitCodec ==
    /\ \E v \in Int16, n \in 0..2 :
          codec = [NoParse EXCEPT !.v = v,
                                  !.data = SubSeq(EncodeInt16(v), 1, n)]
    /\ BufIdle /\ ConcIdle /\ DetIdle /\ ColIdle /\ BusIdle /\ CrcIdle
    /\ WrIdle /\ BaseIdle /\ ObsIdle /\ SamIdle /\ CycIdle

NextCodec ==
    CallParseInt16
        /\ UNCHANGED <<bufVars, concVars, detVars, colVars, busVars, crcVars,
                       wr, base, obs, sam, cyc>>

SpecCodec == InitCodec /\ [][NextCodec]_vars

\* C21: decoding the two bytes of any signed 16-bit value v gives v back,
\* and whatever _parse_int16 returns for a byte pair is a signed 16-bit
\* value.
C21_Int16RoundTrip ==
    (codec.pc = "done" /\ Len(codec.data) = 2) =>
        (codec.value = codec.v /\ codec.value \in Int16)

\* C21 witness: a negative value, both bytes with the top bit set, has been
\* decoded.
C21_Witness ==
    /\ codec.pc = "done"
    /\ codec.data = <<255, 128>>
    /\ codec.value = 0 - 128

----------------------------------------------------------------------------
(* SpecWr: ModbusRTU.write_register on the serial line of SpecBus: the     *)
(* write of the request, then, after the 50 ms wait, the read of up to 8   *)
(* bytes and the verdict.                                                  *)

\* Function Code: Write Single Register
WriteSingle == 6
\* the registers and values write_register is called with
WriteAddresses == {4}
WriteValues == {1, 2}

\* command = command_data + crc for function 0x06, the address and the
\* value cut to two bytes
WriteCommand(address, value) ==
    LET command_data == <<SlaveId, WriteSingle,
                           (address \div 256) % 256, address % 256,
                           (value \div 256) % 256, value % 256>>
    IN  Framed(command_data)

\* what can arrive on the input: the echo of each request, the exception
\* response to a write, the one-register read response, and a damaged echo
WriteFrames ==
    {WriteCommand(a, v) : a \in WriteAddresses, v \in WriteValues}
        \cup {Framed(<<SlaveId, WriteSingle + 128, 2>>), Reply(1, 2)}
        \cup {Damaged(WriteCommand(a, 1)) : a \in WriteAddresses}

\* write_register(address, value) up to time.sleep(0.05): the command is
\* built and handed to _send_command, which refuses when not connected and
\* fails when serial.write raises (port_ok false); write_register then
\* returns False.
WriteRegister(address, value, port_ok) ==
    /\ wr.pc # "wait"
    /\ LET command == WriteCommand(address, value)
           fresh == [NoWrite EXCEPT !.address = address, !.value = value]
       IN  IF sensor_connected /\ port_ok
           THEN wr' = [fresh EXCEPT !.pc = "wait", !.written = command]
           ELSE wr' = [fresh EXCEPT !.pc = "done", !.returned = "false"]
    /\ UNCHANGED <<sensor_connected, serial_in, last_error, rr>>

\* the rest of write_register: _read_response(8), False for no response,
\* False when verify_crc fails, True otherwise
WriteResponse(port_ok) ==
    /\ wr.pc = "wait"
    /\ LET n == IF sensor_connected /\ port_ok
                THEN Min(8, Len(serial_in))
                ELSE 0
           response == SubSeq(serial_in, 1, n)
           ok == n # 0 /\ VerifyCrc(response)
       IN  /\ serial_in' = SubSeq(serial_in, n + 1, Len(serial_in))
           /\ wr' = [wr EXCEPT !.pc = "done", !.response = response,
                               !.returned = IF ok THEN "true" ELSE "false"]
    /\ UNCHANGED <<sensor_connected, last_error, rr>>

InitWr ==
    BufIdle /\ ConcIdle /\ DetIdle /\ ColIdle /\ BusIdle /\ AuxIdle

wrEnv == <<bufVars, concVars, detVars, crcVars, codec, base, obs, sam, cyc,
           is_running,
           stop_event, thread, stats, ctl, clock, colGhost,
           on_connection_lost, on_error>>

NextWr ==
    \/ Connect /\ UNCHANGED <<wrEnv, wr>>
    \/ Disconnect /\ UNCHANGED <<wrEnv, wr>>
    \/ \E frame \in WriteFrames : DeviceSends(frame) /\ UNCHANGED <<wrEnv, wr>>
    \/ \E address \in WriteAddresses, value \in WriteValues,
          port_ok \in BOOLEAN :
          WriteRegister(address, value, port_ok) /\ UNCHANGED wrEnv
    \/ \E port_ok \in BOOLEAN : WriteResponse(port_ok) /\ UNCHANGED wrEnv

SpecWr == InitWr /\ [][NextWr]_vars

\* C22: write_register returns True only when the response it read is the
\* echo of the request: the same eight bytes it wrote.
C22_WriteSuccessOnlyOnEcho ==
    wr.returned = "true" => wr.response = wr.written

----------------------------------------------------------------------------
(* SpecBase: BaselineCalculator.calculate_baseline on windows of samples.  *)
(* Values are in hundredths, as the sensor delivers them (raw / 100.0).    *)
(* A window gives each of the ten axes a column of n values: all 0.00,     *)
(* all 0.05, or 0.05 and 0.07 in turn. Sums are kept exact; what the       *)
(* floating-point mean of numpy adds to them is the input fp_exact.        *)

\* most samples in a window
MaxWindow == 3
\* the min_samples and max_zero_std_axes the calls are made with
MinSamples == {2}
MaxZeroStdAxes == {6}

\* the keys of axes_data, in its order
BaseAxes == <<"vx", "vy", "vz", "dx", "dy", "dz", "ax", "ay", "az", "temp">>
BaseAxisSet == {BaseAxes[i] : i \in 1..Len(BaseAxes)}
\* critical_axes = ['vy', 'vz']
CriticalAxes == {"vy", "vz"}
\* the other axes, in the order of axes_data
OtherAxes == <<"vx", "dx", "dy", "dz", "ax", "ay", "az", "temp">>

ColumnKinds == {"zero", "flat", "varying"}

\* the n values of a column
Column(kind, n) ==
    [i \in 1..n |-> IF kind = "zero" THEN 0
                    ELSE IF kind = "flat" THEN 5
                    ELSE IF i % 2 = 1 THEN 5 ELSE 7]

\* the numbers of other axes that are all zero in a window
OtherZero == {0, 6}
\* the columns of vy and vz in a window
CriticalColumns ==
    {<<"zero", "zero">>, <<"flat", "flat">>, <<"flat", "varying">>,
     <<"zero", "varying">>, <<"varying", "varying">>}

\* the window with n samples, the given columns for vy and vz, the first k
\* other axes all zero and the remaining ones varying
Window(n, vy, vz, k) ==
    [n |-> n,
     col |-> [a \in BaseAxisSet |->
                IF a = "vy" THEN vy
                ELSE IF a = "vz" THEN vz
                ELSE IF \E i \in 1..k : OtherAxes[i] = a THEN "zero"
                ELSE "varying"]]

Windows ==
    {Window(n, c[1], c[2], k) : n \in 0..MaxWindow, c \in CriticalColumns,
                                k \in OtherZero}

\* [d.axis for d in data_list]
AxisValues(window, axis) == Column(window.col[axis], window.n)

RECURSIVE SumOf(_)
SumOf(values) ==
    IF values = << >> THEN 0 ELSE Head(values) + SumOf(Tail(values))

\* all values of the column are the same
Constant(values) == \A i \in 1..Len(values) : values[i] = values[1]

\* np.mean of n copies of a value is that value again when the value and
\* the running sums are exact in binary floating point (0.0 here), for one
\* and two copies, and otherwise when the rounded sum happens to divide back
\* (fp_exact); if not, np.std of the constant column is a tiny positive
\* number
MeanOfCopiesExact(values, fp_exact) ==
    values[1] = 0 \/ Len(values) <= 2 \/ fp_exact

\* features['std'] == 0 for a non-empty column
StdZero(values, fp_exact) ==
    Constant(values) /\ MeanOfCopiesExact(values, fp_exact)

\* the dict of an axis in BaselineCalculator.__init__: {}
EmptyDict ==
    [empty |-> TRUE, count |-> 0, sum |-> 0, peak |-> 0, min |-> 0,
     max |-> 0, std_zero |-> TRUE]

\* the largest and the smallest of a non-empty column
RECURSIVE MaxOf(_)
MaxOf(values) ==
    IF Len(values) = 1 THEN values[1]
    ELSE Max(Head(values), MaxOf(Tail(values)))

RECURSIVE MinOf(_)
MinOf(values) ==
    IF Len(values) = 1 THEN values[1]
    ELSE Min(Head(values), MinOf(Tail(values)))

\* calculate_time_domain_features(values): the all-zero dict for no values;
\* otherwise the mean as sum and count, peak, min, max, and whether std is 0
TimeDomainFeatures(values, fp_exact) ==
    IF values = << >>
    THEN [EmptyDict EXCEPT !.empty = FALSE]
    ELSE [empty |-> FALSE, count |-> Len(values), sum |-> SumOf(values),
          peak |-> Max(Abs(MaxOf(values)), Abs(MinOf(values))),
          min |-> MinOf(values), max |-> MaxOf(values),
          std_zero |-> StdZero(values, fp_exact)]

\* a test that lets every window through
InsufficientNever(n, min_samples) == FALSE

\* len(data_list) < min_samples
Insufficient(n, min_samples) == n < min_samples

\* BaselineCalculator.__init__
BaseInit ==
    /\ baseline = [a \in BaseAxisSet |-> EmptyDict]
    /\ base = NoCalc

\* calculate_baseline(data_buffer, min_samples, max_zero_std_axes) with
\* window = data_buffer.get_all()
CalculateBaseline(window, min_samples, max_zero_std_axes, fp_exact) ==
    LET made == [NoCalc EXCEPT !.op = "calculate", !.window = window,
                               !.min_samples = min_samples,
                               !.max_zero_std_axes = max_zero_std_axes]
        features == [a \in BaseAxisSet |->
                       TimeDomainFeatures(AxisValues(window, a), fp_exact)]
        zero_std_axes == Cardinality({a \in BaseAxisSet : features[a].std_zero})
        critical_zero_count ==
            Cardinality({a \in CriticalAxes : features[a].std_zero})
    IN  IF Insufficient(window.n, min_samples)
        THEN /\ base' = [made EXCEPT !.returned = "false",
                                     !.last_error = "insufficient"]
             /\ UNCHANGED baseline
        ELSE /\ baseline' = features
             /\ base' =
                  [made EXCEPT
                     !.kept = (features = baseline),
                     !.returned =
                        IF critical_zero_count >= 2
                           \/ zero_std_axes > max_zero_std_axes
                        THEN "false" ELSE "true",
                     !.last_error =
                        IF critical_zero_count >= 2 THEN "no_vibration"
                        ELSE IF zero_std_axes > max_zero_std_axes
                        THEN "too_many_flat"
                        ELSE base.last_error]

InitBase ==
    /\ BaseInit
    /\ min_consecutive = 1 /\ hysteresis_ratio = 0 /\ thresholds = << >>
    /\ state_tracker = << >> /\ anomaly_results = << >> /\ tick = 0
    /\ trace = << >>
    /\ BufIdle /\ ConcIdle /\ ColIdle /\ BusIdle /\ CrcIdle /\ CodecIdle
    /\ WrIdle /\ ObsIdle /\ SamIdle /\ CycIdle

baseEnv == <<bufVars, concVars, colVars, busVars, crcVars, codec, wr, obs,
             sam, cyc, thresholds, min_consecutive, hysteresis_ratio, state_tracker,
             anomaly_results, tick, trace>>

NextBase ==
    \E window \in Windows, min_samples \in MinSamples,
       max_zero_std_axes \in MaxZeroStdAxes, fp_exact \in BOOLEAN :
        /\ CalculateBaseline(window, min_samples, max_zero_std_axes, fp_exact)
        /\ UNCHANGED baseEnv

SpecBase == InitBase /\ [][NextBase]_vars

\* a column of the window of the last call is constant
ConstantIn(axis) == Constant(AxisValues(base.window, axis))

\* C23: calculate_baseline called with fewer than min_samples samples
\* returns False with the insufficient-data error and leaves the stored
\* baseline as it was.
C23_TooFewSamplesRejected ==
    (base.op = "calculate" /\ base.window.n < base.min_samples) =>
        /\ base.returned = "false"
        /\ base.last_error = "insufficient"
        /\ base.kept

\* C23 witness: a call with too few samples was rejected while a computed
\* baseline was stored.
C23_Witness ==
    /\ base.op = "calculate"
    /\ base.window.n < base.min_samples
    /\ base.window.n > 0
    /\ base.returned = "false"
    /\ ~baseline["vy"].empty

\* C24: with at least min_samples samples, calculate_baseline succeeds
\* exactly when vy and vz are not both constant over the window and at
\* most max_zero_std_axes of the ten axes are constant; when both fail, the
\* error is the no-vibration one.
C24_SucceedsIffSignalAndFewFlat ==
    (base.op = "calculate" /\ base.window.n >= base.min_samples) =>
        LET no_signal == ConstantIn("vy") /\ ConstantIn("vz")
            flat == Cardinality({a \in BaseAxisSet : ConstantIn(a)})
            too_flat == flat > base.max_zero_std_axes
        IN  /\ base.returned = "true" <=> (~no_signal /\ ~too_flat)
            /\ (no_signal /\ too_flat) => base.last_error = "no_vibration"

\* C25: a call of calculate_baseline that returns False leaves the stored
\* baseline as it was.
C25_RejectionKeepsBaseline ==
    (base.op = "calculate" /\ base.returned = "false") => base.kept

----------------------------------------------------------------------------
(* SpecThr: an AnomalyDetector beside the BaselineCalculator it was built  *)
(* over. The calculator's profile is replaced by calculate_baseline and by *)
(* load_baseline; the detector's thresholds are written by                 *)
(* calculate_thresholds; detect_anomaly reads them. The factors are set in *)
(* AnomalyDetector.__init__ and assigned nowhere else.                     *)

\* most detect_anomaly calls that evaluate the axes in a run
ThrTicks == 2

\* a profile calculate_baseline stores: features for every axis
ComputedProfiles ==
    { [a \in Axes |-> IF a \in AcAxes
                      THEN Features(0, 300, 1000, 1400, 140, 300, 200)
                      ELSE Features(2500, 100, 2502, 2700, 108, 250, 0)],
      [a \in Axes |-> IF a \in AcAxes
                      THEN Features(0, 200, 800, 1200, 150, 300, 0)
                      ELSE Features(-1000, 100, 1005, 1200, 119, 250, 0)] }

\* what json.load can return from a baseline file: a stored profile, or {}
FileProfiles == ComputedProfiles \cup {<< >>}

\* the inputs of a tick: quiet or loud on the oscillatory axis, at the
\* baseline or hot on the temperature axis
ThrInputs ==
    {[a \in Axes |-> IF a \in AcAxes THEN ia ELSE it] :
        ia \in {WindowInput(0, 0, 0, 0), WindowInput(1400, 100, 0, 0)},
        it \in {ValueInput(2500), ValueInput(2900)}}

\* BaselineCalculator.__init__ and AnomalyDetector.__init__ with the
\* default min_consecutive=2 and hysteresis_ratio=0.9
ThrInit ==
    /\ baseline = [a \in Axes |-> Features(0, 0, 0, 0, 0, 0, 0)]
    /\ thresholds = << >>
    /\ min_consecutive = 2
    /\ hysteresis_ratio = 90
    /\ state_tracker = << >>
    /\ anomaly_results = << >>
    /\ tick = 0
    /\ trace = << >>
    /\ obs = NoObs

\* calculate_baseline on enough samples: the loop stores the features of
\* every axis in self.baseline; nothing of the detector is touched
StoreBaseline(p) ==
    /\ baseline' = p
    /\ obs' = [NoObs EXCEPT !.op = "calculate_baseline"]
    /\ UNCHANGED <<thresholds, min_consecutive, hysteresis_ratio,
                   state_tracker, anomaly_results, tick, trace>>

\* load_baseline(): self.baseline = json.load(f) when the file exists and
\* parses; otherwise last_error is set and the profile stays
LoadBaseline(p, found) ==
    /\ baseline' = IF found THEN p ELSE baseline
    /\ obs' = [NoObs EXCEPT !.op = "load_baseline"]
    /\ UNCHANGED <<thresholds, min_consecutive, hysteresis_ratio,
                   state_tracker, anomaly_results, tick, trace>>

\* calculate_thresholds() on the pair
ThrCalculateThresholds ==
    /\ CalculateThresholds
    /\ obs' = [NoObs EXCEPT !.op = "calculate_thresholds"]

\* detect_anomaly with thresholds: obs notes whether the thresholds it
\* evaluated against are the ones of the calculator's profile
ThrDetectAnomaly(inputs) ==
    /\ tick < ThrTicks
    /\ DetectAnomaly(inputs)
    /\ obs' = [NoObs EXCEPT !.op = "detect_anomaly",
                            !.stale = (thresholds # ComputeThresholds(baseline)),
                            !.tracker_before = state_tracker]

\* detect_anomaly without thresholds
ThrDetectWithoutThresholds ==
    /\ DetectWithoutThresholds
    /\ obs' = [NoObs EXCEPT !.op = "detect_anomaly",
                            !.tracker_before = state_tracker,
                            !.unchanged = (state_tracker' = state_tracker)]

InitThr ==
    /\ ThrInit
    /\ BufIdle /\ ConcIdle /\ ColIdle /\ BusIdle /\ CrcIdle /\ CodecIdle
    /\ WrIdle /\ BaseIdle /\ SamIdle /\ CycIdle

thrEnv == <<bufVars, concVars, colVars, busVars, crcVars, codec, wr, base,
            sam, cyc>>

NextThr ==
    \/ \E p \in ComputedProfiles : StoreBaseline(p) /\ UNCHANGED thrEnv
    \/ \E p \in FileProfiles, found \in BOOLEAN :
          LoadBaseline(p, found) /\ UNCHANGED thrEnv
    \/ ThrCalculateThresholds /\ UNCHANGED thrEnv
    \/ \E inputs \in ThrInputs : ThrDetectAnomaly(inputs) /\ UNCHANGED thrEnv
    \/ ThrDetectWithoutThresholds /\ UNCHANGED thrEnv

SpecThr == InitThr /\ [][NextThr]_vars

\* C26: every detect_anomaly call that evaluates the axes does so against
\* the thresholds computed from the profile its calculator holds at that
\* moment: after calculate_baseline or load_baseline has changed the
\* profile, the thresholds have been recomputed before the next evaluation.
C26_ThresholdsFollowBaseline ==
    obs.op = "detect_anomaly" => ~obs.stale

\* C27: detect_anomaly called while the thresholds are empty returns an
\* empty result and leaves every tracker as it was: none is created, no
\* streak and no last_state changes.
C27_NoThresholdsNoEffect ==
    (obs.op = "detect_anomaly" /\ DOMAIN thresholds = {}) =>
        /\ anomaly_results = << >>
        /\ obs.unchanged
        /\ state_tracker = obs.tracker_before

\* C27 witness: the call came after earlier ticks had left trackers with a
\* running streak, and the thresholds had been emptied since.
C27_Witness ==
    /\ obs.op = "detect_anomaly"
    /\ DOMAIN thresholds = {}
    /\ anomaly_results = << >>
    /\ \E a \in DOMAIN state_tracker : state_tracker[a].critical_streak >= 1

----------------------------------------------------------------------------
(* SpecScore: get_anomaly_score(anomaly_results) on a detector that has    *)
(* thresholds and trackers. The score is a float quotient of two integers; *)
(* it is kept as the pair <<numerator, denominator>> and compared by cross *)
(* multiplication.                                                         *)

\* most axes in a result set
MaxScoreAxes == 3

Statuses == {"normal", "warning", "anomaly"}

\* the axes a result set can have entries for
ScoreAxes == {BaseAxes[i] : i \in 1..MaxScoreAxes}

\* the dicts detect_anomaly can return, by the status of each axis
ResultSets ==
    UNION {[S -> {[status |-> st] : st \in Statuses}] : S \in SUBSET ScoreAxes}

\* sum(1 for r in anomaly_results.values() if r['status'] == status)
CountOf(results, status) ==
    Cardinality({a \in DOMAIN results : results[a].status = status})

\* min(score, 100.0)
MinScore(score) ==
    IF score[1] > 100 * score[2] THEN <<100, 1>> ELSE score

\* a score that counts a warning as much as an anomaly
ScoreWarningsFull(results) ==
    IF DOMAIN results = {}
    THEN <<0, 1>>
    ELSE MinScore(<<(CountOf(results, "anomaly") * 100)
                      + (CountOf(results, "warning") * 100),
                    Cardinality(DOMAIN results)>>)

\* get_anomaly_score(anomaly_results)
Score(results) ==
    IF DOMAIN results = {}
    THEN <<0, 1>>
    ELSE MinScore(<<(CountOf(results, "anomaly") * 100)
                      + (CountOf(results, "warning") * 50),
                    Cardinality(DOMAIN results)>>)

\* the detector calls get_anomaly_score: nothing of self is assigned
GetAnomalyScore(results) ==
    /\ UNCHANGED detVars
    /\ obs' = [NoObs EXCEPT !.op = "get_anomaly_score",
                            !.results = results,
                            !.score = Score(results),
                            !.tracker_before = state_tracker,
                            !.unchanged = (thresholds' = thresholds
                                           /\ state_tracker' = state_tracker
                                           /\ baseline' = baseline)]

InitScore ==
    /\ ThrInit
    /\ BufIdle /\ ConcIdle /\ ColIdle /\ BusIdle /\ CrcIdle /\ CodecIdle
    /\ WrIdle /\ BaseIdle /\ SamIdle /\ CycIdle

NextScore ==
    \/ ThrCalculateThresholds /\ UNCHANGED thrEnv
    \/ \E inputs \in ThrInputs : ThrDetectAnomaly(inputs) /\ UNCHANGED thrEnv
    \/ \E results \in ResultSets : GetAnomalyScore(results) /\ UNCHANGED thrEnv

SpecScore == InitScore /\ [][NextScore]_vars

\* a <= b, a = b for quotients
ScoreLeq(a, b) == a[1] * b[2] <= b[1] * a[2]
ScoreEq(a, b) == a[1] * b[2] = b[1] * a[2]

Severity(status) ==
    IF status = "anomaly" THEN 2 ELSE IF status = "warning" THEN 1 ELSE 0

\* C28: get_anomaly_score returns (anomaly_count*100 + warning_count*50) /
\* axis_count for a non-empty result set and 0 for an empty one; the score
\* lies in [0, 100], is 100 exactly when every axis is Anomaly and 0 exactly
\* when every axis is Normal, does not decrease when one axis becomes more
\* severe, and the call changes nothing of the detector.
C28_ScoreLaw ==
    obs.op = "get_anomaly_score" =>
        LET r == obs.results
            n == Cardinality(DOMAIN r)
            anomalies == {a \in DOMAIN r : r[a].status = "anomaly"}
            warnings == {a \in DOMAIN r : r[a].status = "warning"}
        IN  /\ n = 0 => ScoreEq(obs.score, <<0, 1>>)
            /\ n > 0 =>
                 /\ ScoreEq(obs.score,
                            <<(Cardinality(anomalies) * 100)
                                + (Cardinality(warnings) * 50), n>>)
                 /\ ScoreEq(obs.score, <<100, 1>>) <=> anomalies = DOMAIN r
                 /\ ScoreEq(obs.score, <<0, 1>>)
                        <=> (anomalies = {} /\ warnings = {})
            /\ ScoreLeq(<<0, 1>>, obs.score)
            /\ ScoreLeq(obs.score, <<100, 1>>)
            /\ \A a \in DOMAIN r : \A st \in Statuses :
                  Severity(st) >= Severity(r[a].status) =>
                      ScoreLeq(obs.score,
                               Score([r EXCEPT ![a] = [status |-> st]]))
            /\ obs.unchanged
            /\ state_tracker = obs.tracker_before

\* C28 witness: a detector with trackers scored a result set with an
\* Anomaly and a Warning axis, and the score is neither 0 nor 100 nor a
\* whole number.
C28_Witness ==
    /\ obs.op = "get_anomaly_score"
    /\ state_tracker # << >>
    /\ \A st \in {"anomaly", "warning"} : \E a \in DOMAIN obs.results :
          obs.results[a].status = st
    /\ obs.score[1] % obs.score[2] # 0

----------------------------------------------------------------------------
(* SpecSam: the SensorData objects of one polling loop. The sensor keeps   *)
(* one working object, self.current_data, which the five partial reads of  *)
(* read_all_data write into; what the loop adds to the buffer is a         *)
(* reference to an object. The buffer holds object identities here, and    *)
(* sam.heap the fields behind them.                                        *)

\* most cycles of the polling loop in a run
MaxPolls == 3
\* the DataBuffer's max_size in these runs
SamCap == 2
\* what the device's registers hold during a cycle
Readings == {1, 2}

\* the measurements in the order read_all_data reads them
ReadOrder ==
    <<"velocity", "displacement", "frequency", "acceleration", "temperature">>

\* self.current_data after the first ok partial reads of a cycle have each
\* stored the device's value v
AfterReads(data, v, ok) ==
    [f \in DOMAIN data |->
        IF \E k \in 1..ok : ReadOrder[k] = f THEN v ELSE data[f]]

\* a read_all_data that hands out the working object itself, as the
\* partial reads do
ResultShared(fresh) == Working

\* result = SensorData(): the object read_all_data returns
ResultObject(fresh) == fresh

\* one cycle of _collect_data_loop with the sensor connected:
\* read_all_data(), and buffer.add(data) when it returned an object. A
\* partial read that fails ends read_all_data with None, the earlier ones
\* having written self.current_data.
PollOnce(v, ok) ==
    LET now == sam.polls + 1
        read == AfterReads(sam.heap[Working], v, ok)
        stamped == [read EXCEPT !.timestamp = now]
        made == ResultObject(nextId)
    IN  /\ sam.polls < MaxPolls
        /\ IF ok < Len(ReadOrder)
           THEN /\ sam' = [sam EXCEPT !.heap[Working] = read, !.polls = now]
                /\ UNCHANGED <<buffer, nextId>>
           ELSE /\ sam' =
                     [heap |-> [i \in DOMAIN sam.heap \cup {made} |->
                                  IF i \in {Working, made} THEN stamped
                                  ELSE sam.heap[i]],
                      inserted |-> [i \in DOMAIN sam.inserted \cup {made} |->
                                      IF i = made THEN stamped
                                      ELSE sam.inserted[i]],
                      polls |-> now]
                /\ buffer' = DequeAppend(buffer, made, max_size)
                /\ nextId' = nextId + 1
        /\ UNCHANGED <<max_size, added, ret>>

InitSam ==
    /\ max_size = SamCap
    /\ buffer = << >>
    /\ added = << >>
    /\ nextId = 1
    /\ ret = NoRet
    /\ sam = NoSamples
    /\ ConcIdle /\ DetIdle /\ ColIdle /\ BusIdle /\ CrcIdle /\ CodecIdle
    /\ WrIdle /\ BaseIdle /\ ObsIdle /\ CycIdle

samEnv == <<concVars, detVars, colVars, busVars, crcVars, codec, wr, base,
            obs, cyc>>

NextSam ==
    \E v \in Readings, ok \in 0..Len(ReadOrder) :
        PollOnce(v, ok) /\ UNCHANGED samEnv

SpecSam == InitSam /\ [][NextSam]_vars

\* C29: every object the polling loop has added to the buffer has the
\* fields it had when it was added, whatever the sensor has read into its
\* working object since; the entries of the buffer are pairwise different
\* objects, and none is the working object.
C29_BufferedSamplesImmutable ==
    /\ \A i \in DOMAIN sam.inserted : sam.heap[i] = sam.inserted[i]
    /\ \A i, j \in 1..Len(buffer) : i # j => buffer[i] # buffer[j]
    /\ \A i \in 1..Len(buffer) : buffer[i] # Working

\* C29 witness: the buffer holds two samples with different measurements,
\* and a later, failed read has left the working object with values that
\* are in neither.
C29_Witness ==
    /\ Len(buffer) = 2
    /\ sam.heap[buffer[1]].velocity # sam.heap[buffer[2]].velocity
    /\ sam.heap[Working].velocity # sam.heap[buffer[2]].velocity
    /\ sam.heap[Working].temperature = sam.heap[buffer[2]].temperature

\* C30: once a session of the collector has ended, stop() having returned
\* and the sensor being disconnected, the buffer is empty.
C30_BufferEmptyAfterSession ==
    (clock >= 1 /\ ~is_running /\ ctl = "idle" /\ colGhost.stopped
        /\ ~sensor_connected)
        => buffer = << >>

----------------------------------------------------------------------------
(* Claims of the last group.                                               *)

\* C31: for every n >= 0, get_last_n(n) returns the min(n, size) most
\* recently added samples in insertion order, the empty list for n = 0; and
\* get_latest() returns the last added sample, or None on an empty buffer.
C31_LastNExact ==
    /\ ret.op = "get_last_n" =>
          ret.val = LastOf(ret.buf, Min(ret.a, Len(ret.buf)))
    /\ ret.op = "get_latest" =>
          ret.val = IF ret.buf = << >> THEN None ELSE ret.buf[Len(ret.buf)]

----------------------------------------------------------------------------
(* SpecCyc: read_all_data step by step. A polling loop calls it once per   *)
(* cycle; it runs the five partial reads in order, each one a single       *)
(* read_registers call that stores its decoded values in the sensor's one  *)
(* working object, and copies the working object into a new SensorData     *)
(* when all five returned something. A second polling loop on the same     *)
(* sensor exists after a stop() whose join timed out during a read and a   *)
(* start() that followed it.                                               *)

\* most cycles of the polling loops together in a run
MaxCycles == 3

\* the loop start() spawned first, and the one a later start() spawned
\* while the first was still inside a read
Loops == {"first", "second"}

\* where a field of a SensorData came from: the loop and the number of its
\* cycle whose accepted response was decoded into it; NoOrigin for the
\* defaults of SensorData()
NoOrigin == <<"none", 0>>

\* a read_registers call that writes its frame again after no response
FramesWrittenRetry(connected) == IF connected THEN 2 ELSE 0

\* a read_registers call's serial.write calls: _send_command writes the
\* frame once, and not at all without a connection
FramesWritten(connected) == IF connected THEN 1 ELSE 0

\* a read_all_data that goes on to the next block after a failed one
NextStepOnward(k, ok) == k + 1

\* read_all_data after its k-th partial read returned: the next partial
\* read (Len(ReadOrder) + 1 for the copy), or 0 after "return None"
NextStep(k, ok) == IF ok THEN k + 1 ELSE 0

CycInit ==
    [idle |-> FALSE,
     running |-> {"first"},
     connected |-> TRUE,
     at |-> [t \in Loops |-> 0],
     cycle |-> [t \in Loops |-> 0],
     sent |-> [t \in Loops |-> << >>],
     accepted |-> [t \in Loops |-> 0],
     request |-> [connected |-> FALSE, frames |-> 0, ok |-> FALSE],
     current_data |-> [b \in {ReadOrder[k] : k \in 1..Len(ReadOrder)} |->
                         NoOrigin],
     sample |-> [by |-> NoOrigin,
                 from |-> [b \in {ReadOrder[k] : k \in 1..Len(ReadOrder)} |->
                             NoOrigin]]]

\* _collect_data_loop calls read_all_data
BeginCycle(t) ==
    /\ t \in cyc.running
    /\ cyc.at[t] = 0
    /\ cyc.cycle["first"] + cyc.cycle["second"] < MaxCycles
    /\ cyc' = [cyc EXCEPT !.at[t] = 1,
                          !.cycle[t] = @ + 1,
                          !.sent[t] = << >>,
                          !.accepted[t] = 0]

\* the partial read at position cyc.at[t]: read_registers writes its frame
\* and reads a response; responded says whether one came that passed the
\* CRC check and was long enough
PartialRead(t, responded) ==
    LET k == cyc.at[t]
        block == ReadOrder[k]
        written == FramesWritten(cyc.connected)
        ok == cyc.connected /\ responded
    IN  /\ t \in cyc.running
        /\ k \in 1..Len(ReadOrder)
        /\ cyc' = [cyc EXCEPT
                     !.request = [connected |-> cyc.connected,
                                  frames |-> written, ok |-> ok],
                     !.sent[t] = @ \o [i \in 1..written |-> block],
                     !.accepted[t] = IF ok THEN @ + 1 ELSE @,
                     !.current_data[block] =
                         IF ok THEN <<t, cyc.cycle[t]>> ELSE @,
                     !.at[t] = NextStep(k, ok)]

\* result = SensorData() and the copy of the working object's fields
CopyResult(t) ==
    /\ t \in cyc.running
    /\ cyc.at[t] = Len(ReadOrder) + 1
    /\ cyc' = [cyc EXCEPT
                 !.sample = [by |-> <<t, cyc.cycle[t]>>,
                             from |-> cyc.current_data],
                 !.at[t] = 0]

\* the transport loses or regains its connection
TransportChanges ==
    /\ cyc' = [cyc EXCEPT !.connected = ~@]

\* stop() returns from its join on the timeout while the first loop is
\* inside a partial read, and start() spawns another loop
RestartDuringRead ==
    /\ cyc.running = {"first"}
    /\ cyc.at["first"] \in 1..Len(ReadOrder)
    /\ cyc' = [cyc EXCEPT !.running = Loops]

InitCyc ==
    /\ cyc = CycInit
    /\ BufIdle /\ ConcIdle /\ DetIdle /\ ColIdle /\ BusIdle /\ CrcIdle
    /\ CodecIdle /\ WrIdle /\ BaseIdle /\ ObsIdle /\ SamIdle

cycEnv == <<bufVars, concVars, detVars, colVars, busVars, crcVars, codec, wr,
            base, obs, sam>>

NextCyc ==
    \/ \E t \in Loops : BeginCycle(t) /\ UNCHANGED cycEnv
    \/ \E t \in Loops, responded \in BOOLEAN :
          PartialRead(t, responded) /\ UNCHANGED cycEnv
    \/ \E t \in Loops : CopyResult(t) /\ UNCHANGED cycEnv
    \/ TransportChanges /\ UNCHANGED cycEnv
    \/ RestartDuringRead /\ UNCHANGED cycEnv

SpecCyc == InitCyc /\ [][NextCyc]_vars

\* C32: in every cycle of every polling loop the requests sent so far are
\* the first blocks of the fixed order velocity, displacement, frequency,
\* acceleration, temperature, one frame each; every block but the last one
\* requested was answered by an accepted response, so nothing is requested
\* after a failed block; and a read_registers call writes one frame when
\* the transport is connected and none when it is not.
C32_RequestsInOrder ==
    ~cyc.idle =>
        /\ \A t \in Loops :
              /\ cyc.sent[t] = SubSeq(ReadOrder, 1, Len(cyc.sent[t]))
              /\ cyc.accepted[t] <= Len(cyc.sent[t])
              /\ Len(cyc.sent[t]) <= cyc.accepted[t] + 1
              /\ cyc.at[t] \in 1..Len(ReadOrder) =>
                    /\ cyc.accepted[t] = cyc.at[t] - 1
                    /\ Len(cyc.sent[t]) = cyc.at[t] - 1
        /\ cyc.request.frames = (IF cyc.request.connected THEN 1 ELSE 0)
        /\ cyc.request.ok => cyc.request.frames = 1

\* C32 witness: a cycle that ended at its third block: velocity and
\* displacement were answered, frequency was requested and failed, and
\* nothing was requested after it.
C32_Witness ==
    /\ ~cyc.idle
    /\ \E t \in Loops :
          /\ cyc.at[t] = 0
          /\ cyc.sent[t] = <<"velocity", "displacement", "frequency">>
          /\ cyc.accepted[t] = 2
    /\ cyc.request = [connected |-> TRUE, frames |-> 1, ok |-> FALSE]

\* C33: on every tick of an rms_factor axis evaluated over a window, the
\* value the hysteresis tests belongs to the same metric as the threshold
\* it is tested against: the critical threshold when the axis's last
\* status was Anomaly, the warning threshold when it was Warning.
C33_HysteresisLikeWithLike ==
    \A a \in DOMAIN trace \cap DOMAIN thresholds :
        LET c == trace[a].compared
        IN  (thresholds[a].method = "rms_factor" /\ c.metric # "value") =>
                /\ trace[a].prevStatus = "anomaly" => c.metric = c.critical
                /\ trace[a].prevStatus = "warning" => c.metric = c.warning

\* the streak counters of axis a after a tick whose severity after
\* hysteresis was sr, against those before it
StreakRule(old, new, sr) ==
    /\ sr = "anomaly" =>
          /\ new.critical_streak = old.critical_streak + 1
          /\ new.warning_streak = old.warning_streak + 1
    /\ sr = "warning" =>
          /\ new.critical_streak = 0
          /\ new.warning_streak = old.warning_streak + 1
    /\ sr = "normal" =>
          /\ new.critical_streak = 0
          /\ new.warning_streak = 0

\* C34: every tick moves the streak counters of every evaluated axis by
\* the debounce rules (anomaly: both up by one; warning: critical_streak
\* 0, warning_streak up by one; normal: both 0), and in every tracker
\* state 0 <= critical_streak <= warning_streak and last_state is
\* Anomaly exactly when critical_streak >= min_consecutive.
C34_StreakInvariant ==
    /\ [](\A a \in DOMAIN state_tracker :
            /\ 0 <= state_tracker[a].critical_streak
            /\ state_tracker[a].critical_streak
                  <= state_tracker[a].warning_streak
            /\ state_tracker[a].last_state = "anomaly"
                  <=> state_tracker[a].critical_streak >= min_consecutive)
    /\ [][tick' = tick + 1 =>
            \A a \in DOMAIN thresholds :
                StreakRule(TrackerOf(a), state_tracker'[a],
                           trace'[a].hist[Len(trace'[a].hist)])]_vars

\* C34 witness: with min_consecutive 2, a warning tick and then two
\* anomaly ticks: critical_streak 2, warning_streak 3, last_state Anomaly.
C34_Witness ==
    \E a \in DOMAIN state_tracker :
        /\ min_consecutive = 2
        /\ state_tracker[a] = [warning_streak |-> 3, critical_streak |-> 2,
                               last_state |-> "anomaly"]
        /\ trace[a].hist = <<"warning", "anomaly", "anomaly">>

\* C35: at any time at most one polling loop of the DataCollector is
\* alive, whatever the order of the start() and stop() calls.
C35_AtMostOneLoop ==
    Cardinality({i \in 1..Len(thread) : Alive(thread[i])}) <= 1

\* C36: whenever no polling loop is executing, is_running is false (and so
\* get_statistics() reports it false and start() is not refused as
\* already running).
C36_RunningOnlyWhileLooping ==
    (\A i \in 1..Len(thread) : ~Alive(thread[i])) => ~is_running

----------------------------------------------------------------------------
(* SpecCb: one session of a DataCollector whose callbacks may raise.       *)
(* on_data_received is called inside its own try (lines 178-182): whether  *)
(* it raises or returns, the loop goes on to count the reading.            *)
(* on_connection_lost and on_error are called inside the loop's try and,   *)
(* on_error again, inside its except clause.                               *)

\* number of read_all_data calls in a session with raising callbacks
CbReads == 3

\* what on_error does
ErrorCallbackKinds == {"returns", "raises"}

InitCb ==
    /\ \E cb \in CallbackKinds : ColInitWith(cb, CbReads, TRUE)
    /\ on_error \in ErrorCallbackKinds
    /\ ConcIdle
    /\ DetIdle
    /\ BusIdle
    /\ AuxIdle

SpecCb == InitCb /\ [][NextSes]_vars

\* C37: no callback that raises ends the polling loop with its exception,
\* and after a raising on_connection_lost the loop has ended and the
\* callback is not called a second time.
C37_CallbacksNeverBreakLoop ==
    /\ "loop_crashed" \notin colGhost.events
    /\ on_connection_lost = "raises" =>
          /\ colGhost.lost_n <= 1
          /\ colGhost.lost.invoked =>
                \A i \in 1..Len(thread) : ~Alive(thread[i])

----------------------------------------------------------------------------
(* SpecQuiet: the detector of SpecDet on a signal that goes back to its    *)
(* baseline. The first QuietFrom ticks see any input; from then on every   *)
(* metric of every axis is at or below the axis's baseline value. The      *)
(* window calls detect_anomaly for every sample the polling loop delivers, *)
(* so a tick that can be taken is taken.                                   *)

\* the tick after which the signal is back at its baseline
QuietFrom == 3

\* every metric of the input is at or below the baseline value of axis a
AtOrBelowBaseline(a, inp) ==
    LET f == baseline[a]
    IN  IF inp.window
        THEN /\ inp.rms <= f.rms
             /\ inp.peak <= f.peak
             /\ inp.crest <= f.crest_factor
             /\ inp.kurtosis <= f.kurtosis
             /\ inp.hf_energy <= f.hf_energy
        ELSE inp.val <= (IF a \in AcAxes THEN f.rms ELSE f.mean)

\* the windows of these runs: all zero, constant at and above the
\* baseline's RMS, and one with every metric far above the baseline
RecoveryInputs ==
    {WindowInput(0, 0, 0, 0), WindowInput(1400, 220, 500, 900)}
    \cup {WindowInput(r, 100, 0, 0) : r \in RmsValues}

\* detect_anomaly on the next sample: any input before QuietFrom, quiet
\* ones after
QuietTick ==
    \E ia \in InputsOf(AcAxes, RecoveryInputs),
       it \in InputsOf(DcAxes, DcInputs) :
        LET inputs == [a \in Axes |-> IF a \in AcAxes THEN ia ELSE it]
        IN  /\ tick >= QuietFrom =>
                  \A a \in DOMAIN thresholds :
                      AtOrBelowBaseline(a, inputs[a])
            /\ DetectAnomaly(inputs)
            /\ UNCHANGED <<bufVars, concVars, colVars, busVars, auxVars>>

NextQuiet ==
    \/ CalculateThresholds
          /\ UNCHANGED <<bufVars, concVars, colVars, busVars, auxVars>>
    \/ DetectWithoutThresholds
          /\ UNCHANGED <<bufVars, concVars, colVars, busVars, auxVars>>
    \/ QuietTick

SpecQuiet == InitDet /\ [][NextQuiet]_vars /\ WF_vars(QuietTick)

\* the reported status of axis a is st
Reported(a, st) ==
    a \in DOMAIN anomaly_results /\ anomaly_results[a].status = st

----------------------------------------------------------------------------
(* SpecMean: the detector of SpecDet with the temperature at its baseline  *)
(* mean on every tick, from a fresh tracker.                               *)

\* the temperature of every tick: the baseline's mean
AtMean(a) == ValueInput(IF a \in DOMAIN baseline THEN baseline[a].mean ELSE 0)

\* detect_anomaly with any window for the oscillatory axis and the
\* temperature at its mean
MeanTick ==
    \E ia \in InputsOf(AcAxes, AcInputs) :
        /\ DetectAnomaly([a \in Axes |-> IF a \in AcAxes THEN ia
                                         ELSE AtMean(a)])
        /\ UNCHANGED <<bufVars, concVars, colVars, busVars, auxVars>>

NextMean ==
    \/ CalculateThresholds
          /\ UNCHANGED <<bufVars, concVars, colVars, busVars, auxVars>>
    \/ DetectWithoutThresholds
          /\ UNCHANGED <<bufVars, concVars, colVars, busVars, auxVars>>
    \/ MeanTick

SpecMean == InitDet /\ [][NextMean]_vars

\* C39: a mean_std axis whose thresholds come from a baseline with
\* std > 0, and whose value has been the baseline mean on every tick since
\* its tracker was fresh, reports Normal on every tick, whatever the sign
\* of the mean.
C39_MeanIsNormal ==
    \A a \in DcAxes \cap DOMAIN anomaly_results :
        (thresholds[a].method = "mean_std" /\ baseline[a].std > 0)
            => anomaly_results[a].status = "normal"

\* C40: every field of every sample read_all_data has returned was decoded
\* from a response accepted in the cycle that produced the sample.
C40_SampleOfOneCycle ==
    ~cyc.idle =>
        \A b \in DOMAIN cyc.sample.from :
            cyc.sample.from[b] = cyc.sample.by

====
